---- MODULE Spec2Model ----
(***************************************************************************)
(* Content indexing layer of kosrat.dev: the course/section/lesson/post    *)
(* listings (draft filter, validation, ordering), the module-level content *)
(* cache and the sort memo, lesson navigation, batched preloading, and the *)
(* course progress kept in the browser's localStorage.                     *)
(*                                                                         *)
(* Strings (ids, slugs, titles) are sequences of character codes, so that  *)
(* startsWith, split("/") and string comparison are computed, not assumed. *)
(* Dates are their getTime() value.                                        *)
(***************************************************************************)
EXTENDS Integers, Sequences, FiniteSets, Bags, TLC

VARIABLES env, CACHE_TTL, now, store, contentCache, sortCache, calls,
          started, last, lastResult, fresh, localStorage, batch

vars == <<env, CACHE_TTL, now, store, contentCache, sortCache, calls,
          started, last, lastResult, fresh, localStorage, batch>>

----------------------------------------------------------------------------
(* Bounds of the model *)

\* length of the content store drawn in SeqInit
MaxLen == 3
\* aggregation calls made in one behaviour of SeqSpec
MaxSeqCalls == 1
\* aggregation calls started in one behaviour of Spec
MaxStarted == 2
\* concurrently pending aggregation calls (promises awaiting getCollection)
MaxCalls == 2
\* largest value of Date.now()
MaxClock == 2
\* page-level operations run one after another in PageSpec and FeedSpec
MaxPageCalls == 2

\* mark and reset calls made in one behaviour of ProgressSpec
MaxProgressCalls == 3

\* largest batchSize given to batchPreloadCourseData
MaxBatchSize == 2

\* aggregation calls begun in one behaviour of FailSpec
MaxFailCalls == 3

----------------------------------------------------------------------------
(* Strings *)

Slash == 47
Space == 32
POSITIVE_INFINITY == 1000000
SORT_THRESHOLD == 50

\* String.prototype.startsWith
StartsWith(s, p) == Len(p) <= Len(s) /\ SubSeq(s, 1, Len(p)) = p

RECURSIVE SplitFrom(_, _, _)
\* s.split("/"), scanning from position i with the segment cur in progress
SplitFrom(s, i, cur) ==
  IF i > Len(s) THEN <<cur>>
  ELSE IF s[i] = Slash THEN <<cur>> \o SplitFrom(s, i + 1, <<>>)
  ELSE SplitFrom(s, i + 1, Append(cur, s[i]))

Split(s) == SplitFrom(s, 1, <<>>)

RECURSIVE LocaleCompareFrom(_, _, _)
\* a.localeCompare(b) on the slug alphabet (digits, lower-case letters, "-"),
\* where collation order and code order agree; the sign is what the callers use
LocaleCompareFrom(a, b, i) ==
  IF i > Len(a) /\ i > Len(b) THEN 0
  ELSE IF i > Len(a) THEN -1
  ELSE IF i > Len(b) THEN 1
  ELSE IF a[i] < b[i] THEN -1
  ELSE IF a[i] > b[i] THEN 1
  ELSE LocaleCompareFrom(a, b, i + 1)

LocaleCompare(a, b) == LocaleCompareFrom(a, b, 1)

RECURSIVE TrimStart(_)
TrimStart(s) == IF s # <<>> /\ Head(s) = Space THEN TrimStart(Tail(s)) ELSE s

RECURSIVE TrimEnd(_)
TrimEnd(s) ==
  IF s # <<>> /\ s[Len(s)] = Space THEN TrimEnd(SubSeq(s, 1, Len(s) - 1)) ELSE s

\* String.prototype.trim
Trim(s) == TrimEnd(TrimStart(s))

----------------------------------------------------------------------------
(* Generic sequence helpers *)

Range(s) == {s[i] : i \in DOMAIN s}

\* Map.set
Put(f, k, v) == [x \in (DOMAIN f) \cup {k} |-> IF x = k THEN v ELSE f[x]]

EmptyMap == <<>>

None == [has |-> FALSE, val |-> <<>>]
Some(v) == [has |-> TRUE, val |-> v]

----------------------------------------------------------------------------
(* Type guards and validation: type-guards.ts *)

isCourse(e) == e.type = "course"
isSection(e) == e.type = "section"
isLesson(e) == e.type = "lesson"

isNonEmptyString(v) == Len(Trim(v)) > 0

NaN == -1
\* dates are getTime() values; NaN stands for an Invalid Date
isValidDate(v) == v # NaN

\* orders in the store are integers (schema: z.number().positive())
isPositiveInteger(v) == v > 0

Levels == {"Beginner", "Intermediate", "Advanced"}

isValidCourseData(d) ==
  /\ d.type = "course"
  /\ isNonEmptyString(d.title)
  /\ isValidDate(d.published)
  /\ isNonEmptyString(d.description)
  /\ isNonEmptyString(d.category)
  /\ d.level \in Levels

isValidSectionData(d) ==
  /\ d.type = "section"
  /\ isNonEmptyString(d.title)
  /\ isPositiveInteger(d.order)

isValidLessonData(d) ==
  /\ d.type = "lesson"
  /\ isNonEmptyString(d.title)
  /\ isPositiveInteger(d.order)
  /\ isValidDate(d.published)

validEntry(e) ==
  IF isCourse(e) THEN isValidCourseData(e)
  ELSE IF isSection(e) THEN isValidSectionData(e)
  ELSE IF isLesson(e) THEN isValidLessonData(e)
  ELSE FALSE

validateCourseEntries(entries) == SelectSeq(entries, validEntry)

\* the try of validateCourseEntries: the guards read entry.data.type and the
\* fields of entry.data, and every entry getCollection returns has its data
\* object, so no guard throws
validationThrows(e) == FALSE

\* what the catch of validateCourseEntries logs: one console.warn with the
\* slug for each entry whose validation threw
validationWarnings(entries) ==
  [i \in DOMAIN SelectSeq(entries, validationThrows) |->
     [message |-> "Invalid course entry:",
      slug |-> SelectSeq(entries, validationThrows)[i].slug]]

----------------------------------------------------------------------------
(* Draft filtering: type-guards.ts *)

\* mutation: the production flag is consulted before the debug flag
isDebugMode_ProductionFirst(ev) ==
  IF ev.metaOK
  THEN IF ev.PROD THEN FALSE ELSE TRUE
  ELSE IF ev.hasWindow /\ ev.urlDebug THEN TRUE ELSE TRUE

isDebugMode(ev) ==
  IF ev.metaOK
  THEN IF ev.VITE_DEBUG THEN TRUE ELSE ~ev.PROD
  ELSE IF ev.hasWindow /\ ev.urlDebug THEN TRUE ELSE TRUE

\* mutation: drafts are included in every mode
shouldIncludeDraft_Always(ev, hasDraft, isDraft) == TRUE

shouldIncludeDraft(ev, hasDraft, isDraft) ==
  IF ~hasDraft THEN TRUE
  ELSE IF ~isDraft THEN TRUE
  ELSE isDebugMode(ev)

shouldIncludeEntry(ev, e) == shouldIncludeDraft(ev, e.hasDraft, e.draft)

----------------------------------------------------------------------------
(* Ordering: optimized-sorting.ts *)

\* mutation: oldest first
coursesByDate_Ascending(a, b) ==
  IF isCourse(a) /\ isCourse(b) THEN a.published - b.published ELSE 0

coursesByDate(a, b) ==
  IF isCourse(a) /\ isCourse(b) THEN b.published - a.published ELSE 0

sectionsByOrder(a, b) ==
  IF isSection(a) /\ isSection(b) THEN a.order - b.order ELSE 0

\* mutation: largest order first
lessonsByOrder_Descending(a, b) ==
  IF isLesson(a) /\ isLesson(b) THEN b.order - a.order ELSE 0

lessonsByOrder(a, b) ==
  IF isLesson(a) /\ isLesson(b) THEN a.order - b.order ELSE 0

\* the section of a lesson is the second segment of its id; the store holds
\* lessons at course/section/lesson, so the segment always exists
sectionOf(e) == Split(e.id)[2]

\* mutation: the section segment is not compared
lessonsBySectionAndOrder_OrderOnly(a, b) ==
  IF isLesson(a) /\ isLesson(b) THEN a.order - b.order ELSE 0

lessonsBySectionAndOrder(a, b) ==
  IF isLesson(a) /\ isLesson(b)
  THEN IF sectionOf(a) # sectionOf(b)
       THEN LocaleCompare(sectionOf(a), sectionOf(b))
       ELSE a.order - b.order
  ELSE 0

\* the comparator of getRawSortedPosts: dateA > dateB ? -1 : 1
rawPostsByDate(a, b) == IF a.published > b.published THEN -1 ELSE 1

\* mutation: oldest first
archiveByDate_Ascending(a, b) == IF a.published > b.published THEN 1 ELSE -1

\* the comparator of getCombinedArchiveContent: dateA > dateB ? -1 : 1
archiveByDate(a, b) == IF a.published > b.published THEN -1 ELSE 1

compare(fn, a, b) ==
  CASE fn = "coursesByDate" -> coursesByDate(a, b)
    [] fn = "sectionsByOrder" -> sectionsByOrder(a, b)
    [] fn = "lessonsByOrder" -> lessonsByOrder(a, b)
    [] fn = "lessonsBySectionAndOrder" -> lessonsBySectionAndOrder(a, b)
    [] fn = "rawPostsByDate" -> rawPostsByDate(a, b)
    [] fn = "archiveByDate" -> archiveByDate(a, b)

RECURSIVE binarySearch(_, _, _, _, _)
\* position at which pivot is inserted into the sorted prefix
binarySearch(fn, sorted, pivot, left, right) ==
  IF left >= right THEN left
  ELSE LET mid == left + ((right - left) \div 2)
       IN IF compare(fn, pivot, sorted[mid + 1]) < 0
          THEN binarySearch(fn, sorted, pivot, left, mid)
          ELSE binarySearch(fn, sorted, pivot, mid + 1, right)

RECURSIVE insertFrom(_, _, _, _)
insertFrom(fn, items, sorted, i) ==
  IF i > Len(items) THEN sorted
  ELSE LET p == binarySearch(fn, sorted, items[i], 0, Len(sorted))
       IN insertFrom(fn, items,
                     SubSeq(sorted, 1, p) \o <<items[i]>> \o
                       SubSeq(sorted, p + 1, Len(sorted)),
                     i + 1)

\* [...items].sort(sortFn): the engine's stable binary insertion sort
nativeSort(fn, items) == insertFrom(fn, items, <<>>, 1)

RECURSIVE merge_RightOnTie(_, _, _)
\* mutation: on a tie the element of the right half is taken first
merge_RightOnTie(fn, left, right) ==
  IF left = <<>> \/ right = <<>> THEN left \o right
  ELSE IF compare(fn, Head(left), Head(right)) < 0
       THEN <<Head(left)>> \o merge_RightOnTie(fn, Tail(left), right)
       ELSE <<Head(right)>> \o merge_RightOnTie(fn, left, Tail(right))

RECURSIVE merge(_, _, _)
merge(fn, left, right) ==
  IF left = <<>> \/ right = <<>> THEN left \o right
  ELSE IF compare(fn, Head(left), Head(right)) <= 0
       THEN <<Head(left)>> \o merge(fn, Tail(left), right)
       ELSE <<Head(right)>> \o merge(fn, left, Tail(right))

RECURSIVE mergeSort(_, _)
mergeSort(fn, arr) ==
  IF Len(arr) <= 1 THEN arr
  ELSE LET mid == Len(arr) \div 2
       IN merge(fn, mergeSort(fn, SubSeq(arr, 1, mid)),
                    mergeSort(fn, SubSeq(arr, mid + 1, Len(arr))))

\* the sort of sortWithCache when the memo is not used
sortFresh(fn, items) ==
  IF Len(items) <= SORT_THRESHOLD THEN nativeSort(fn, items)
  ELSE mergeSort(fn, items)

\* sortWithCache(items, sortFn, cacheKey): the memo sc is one Map per key
\* prefix ("courses_", "sections_", "lessons_", "all_lessons_"); useKey is
\* the truthiness of cacheKey. The result is the pair (sorted, memo after).
sortWithCache(ev, sc, items, fn, space, key, useKey) ==
  IF ev.NODE_ENV = "production" /\ useKey /\ key \in DOMAIN sc[space]
  THEN [sorted |-> sc[space][key], sc |-> sc]
  ELSE LET sorted == sortFresh(fn, items)
       IN [sorted |-> sorted,
           sc |-> IF useKey THEN [sc EXCEPT ![space] = Put(@, key, sorted)]
                  ELSE sc]

sortCourses(ev, sc, courses) ==
  sortWithCache(ev, sc, courses, "coursesByDate", "courses", Len(courses), TRUE)

sortSections(ev, sc, sections, courseSlug) ==
  sortWithCache(ev, sc, sections, "sectionsByOrder", "sections", courseSlug,
                courseSlug # <<>>)

sortLessons(ev, sc, lessons, sectionSlug) ==
  sortWithCache(ev, sc, lessons, "lessonsByOrder", "lessons", sectionSlug,
                sectionSlug # <<>>)

sortAllCourseLessons(ev, sc, lessons, courseSlug) ==
  sortWithCache(ev, sc, lessons, "lessonsBySectionAndOrder", "all_lessons",
                courseSlug, courseSlug # <<>>)

----------------------------------------------------------------------------
(* Content records *)

sA == <<97>>
sB == <<98>>
sAB == <<97, 98>>
s1 == <<49>>
s2 == <<50>>
sX == <<120>>
sY == <<121>>
sZ == <<122>>
sT == <<84>>
sU == <<85>>

Join(p, q) == p \o <<Slash>> \o q

\* an entry of a content collection; slug is the id without file extension
Entry(coll, id, type, title, order, published, draft, hasDraft, description) ==
  [collection |-> coll, id |-> id, slug |-> id, type |-> type, title |-> title,
   order |-> order, published |-> published, draft |-> draft,
   hasDraft |-> hasDraft, description |-> description, category |-> sT,
   level |-> "Beginner"]

Course(id, title, published, draft, description) ==
  Entry("courses", id, "course", title, 0, published, draft, TRUE, description)

Section(id, title, order) ==
  Entry("courses", id, "section", title, order, 0, FALSE, FALSE, <<>>)

Lesson(id, title, order, published, draft) ==
  Entry("courses", id, "lesson", title, order, published, draft, TRUE, <<>>)

Post(id, published, draft) ==
  Entry("posts", id, "post", sT, 0, published, draft, TRUE, sT)

----------------------------------------------------------------------------
(* Store Adapter: getCollection(collection, predicate) returns the entries
   of the collection that satisfy the predicate, in store order *)

\* getAllCourses: data.type === "course" && shouldIncludeEntry({ data })
queryCourses(ev, st) ==
  LET P(e) == /\ e.collection = "courses"
              /\ e.type = "course" /\ shouldIncludeEntry(ev, e)
  IN SelectSeq(st, P)

\* getSortedSections: data.type === "section" && id.startsWith(courseSlug)
querySections(ev, st, courseSlug) ==
  LET P(e) == /\ e.collection = "courses"
              /\ e.type = "section" /\ StartsWith(e.id, courseSlug)
  IN SelectSeq(st, P)

\* getSortedLessons / getAllCourseLessons:
\* data.type === "lesson" && id.startsWith(slug) && shouldIncludeEntry({ data })
queryLessons(ev, st, slug) ==
  LET P(e) == /\ e.collection = "courses"
              /\ e.type = "lesson" /\ StartsWith(e.id, slug)
              /\ shouldIncludeEntry(ev, e)
  IN SelectSeq(st, P)

\* getRawSortedPosts: import.meta.env.PROD ? data.draft !== true : true
queryPosts(ev, st) ==
  LET P(e) == /\ e.collection = "posts"
              /\ IF ev.PROD THEN e.draft # TRUE ELSE TRUE
  IN SelectSeq(st, P)

query(ev, st, fn, key) ==
  CASE fn = "getSortedCourses" -> queryCourses(ev, st)
    [] fn = "getSortedSections" -> querySections(ev, st, key)
    [] fn = "getSortedLessons" -> queryLessons(ev, st, key)
    [] fn = "getAllCourseLessons" -> queryLessons(ev, st, key)
    [] fn = "getRawSortedPosts" -> queryPosts(ev, st)

----------------------------------------------------------------------------
(* Content cache: course-utils.ts *)

EmptyCache ==
  [courses |-> None, courseLessons |-> EmptyMap, courseSections |-> EmptyMap,
   sectionLessons |-> EmptyMap, lastUpdated |-> 0]

EmptySortCache ==
  [courses |-> EmptyMap, sections |-> EmptyMap, lessons |-> EmptyMap,
   all_lessons |-> EmptyMap]

\* mutation: the cache is disabled in every mode
cacheTTL_AlwaysZero(ev) == 0

\* const CACHE_TTL = NODE_ENV === "development" ? 0 : Infinity (at module load)
cacheTTL(ev) == IF ev.NODE_ENV = "development" THEN 0 ELSE POSITIVE_INFINITY

\* mutation: an entry written in the current millisecond counts as valid
isCacheValid_Inclusive(cc, ttl, t) == t - cc.lastUpdated <= ttl

isCacheValid(cc, ttl, t) == t - cc.lastUpdated < ttl

\* mutation: the per-course lesson lists survive the clear
clearContentCache_KeepsLessons(cc) ==
  [cc EXCEPT !.courses = None, !.courseSections = EmptyMap,
             !.sectionLessons = EmptyMap, !.lastUpdated = 0]

clearContentCache(cc) ==
  [cc EXCEPT !.courses = None, !.courseLessons = EmptyMap,
             !.courseSections = EmptyMap, !.sectionLessons = EmptyMap,
             !.lastUpdated = 0]

\* the key-space of the content cache an aggregation function uses
spaceOf(fn) ==
  CASE fn = "getSortedSections" -> "courseSections"
    [] fn = "getSortedLessons" -> "sectionLessons"
    [] fn = "getAllCourseLessons" -> "courseLessons"

\* the cache test at the head of each aggregation function
cacheHit(cc, ttl, t, fn, key) ==
  CASE fn = "getSortedCourses" -> cc.courses.has /\ isCacheValid(cc, ttl, t)
    [] fn = "getRawSortedPosts" -> FALSE
    [] OTHER -> key \in DOMAIN cc[spaceOf(fn)] /\ isCacheValid(cc, ttl, t)

\* what a call returns on the cache-hit path, with the caches afterwards
hitOutcome(ev, cc, sc, fn, key) ==
  IF fn = "getSortedCourses"
  THEN LET r == sortCourses(ev, sc, cc.courses.val)
       IN [cc |-> cc, sc |-> r.sc, result |-> r.sorted]
  ELSE [cc |-> cc, sc |-> sc, result |-> cc[spaceOf(fn)][key]]

\* getAllCourses + getSortedCourses after getCollection resolved
coursesOutcome(ev, cc, sc, t, fetched) ==
  LET validated == validateCourseEntries(fetched)
      r == sortCourses(ev, sc, validated)
  IN [cc |-> [cc EXCEPT !.courses = Some(validated), !.lastUpdated = t],
      sc |-> r.sc, result |-> r.sorted]

\* mutation: the validated list is cached instead of the sorted one
keyedOutcome_CacheUnsorted(ev, cc, sc, fn, key, fetched) ==
  LET validated == validateCourseEntries(fetched)
      r == CASE fn = "getSortedSections" -> sortSections(ev, sc, validated, key)
             [] fn = "getSortedLessons" -> sortLessons(ev, sc, validated, key)
             [] fn = "getAllCourseLessons" ->
                  sortAllCourseLessons(ev, sc, validated, key)
  IN [cc |-> [cc EXCEPT ![spaceOf(fn)] = Put(@, key, validated)],
      sc |-> r.sc, result |-> r.sorted]

\* getSortedSections / getSortedLessons / getAllCourseLessons after
\* getCollection resolved: validate, sort, contentCache.<space>.set(key, sorted)
keyedOutcome(ev, cc, sc, fn, key, fetched) ==
  LET validated == validateCourseEntries(fetched)
      r == CASE fn = "getSortedSections" -> sortSections(ev, sc, validated, key)
             [] fn = "getSortedLessons" -> sortLessons(ev, sc, validated, key)
             [] fn = "getAllCourseLessons" ->
                  sortAllCourseLessons(ev, sc, validated, key)
  IN [cc |-> [cc EXCEPT ![spaceOf(fn)] = Put(@, key, r.sorted)],
      sc |-> r.sc, result |-> r.sorted]

\* getRawSortedPosts after getCollection resolved: allBlogPosts.sort(...)
postsOutcome(cc, sc, fetched) ==
  [cc |-> cc, sc |-> sc, result |-> nativeSort("rawPostsByDate", fetched)]

\* what a call returns on the miss path, with the caches afterwards
missOutcome(ev, cc, sc, t, fn, key, fetched) ==
  CASE fn = "getSortedCourses" -> coursesOutcome(ev, cc, sc, t, fetched)
    [] fn = "getRawSortedPosts" -> postsOutcome(cc, sc, fetched)
    [] OTHER -> keyedOutcome(ev, cc, sc, fn, key, fetched)

----------------------------------------------------------------------------
(* Lesson navigation: course-utils.ts *)

RECURSIVE findIndexFrom(_, _, _)
\* lessons.findIndex(lesson => lesson.slug === slug), 0-based, -1 if absent
findIndexFrom(lessons, slug, i) ==
  IF i > Len(lessons) THEN -1
  ELSE IF lessons[i].slug = slug THEN i - 1
  ELSE findIndexFrom(lessons, slug, i + 1)

findIndex(lessons, slug) == findIndexFrom(lessons, slug, 1)

\* the null result of getLessonNavigation
NoNav ==
  [found |-> FALSE, currentLesson |-> None, previousLesson |-> None,
   nextLesson |-> None, currentIndex |-> -1, totalLessons |-> 0,
   isFirst |-> FALSE, isLast |-> FALSE]

\* mutation: the last lesson is not recognised as last
getLessonNavigation_NoLast(lessons, currentLessonSlug) ==
  LET currentIndex == findIndex(lessons, currentLessonSlug)
  IN IF currentIndex = -1 THEN NoNav
     ELSE [found |-> TRUE,
           currentLesson |-> Some(lessons[currentIndex + 1]),
           previousLesson |-> IF currentIndex > 0
                              THEN Some(lessons[currentIndex]) ELSE None,
           nextLesson |-> IF currentIndex < Len(lessons) - 1
                          THEN Some(lessons[currentIndex + 2]) ELSE None,
           currentIndex |-> currentIndex,
           totalLessons |-> Len(lessons),
           isFirst |-> currentIndex = 0,
           isLast |-> currentIndex = Len(lessons)]

getLessonNavigation(lessons, currentLessonSlug) ==
  LET currentIndex == findIndex(lessons, currentLessonSlug)
  IN IF currentIndex = -1 THEN NoNav
     ELSE [found |-> TRUE,
           currentLesson |-> Some(lessons[currentIndex + 1]),
           previousLesson |-> IF currentIndex > 0
                              THEN Some(lessons[currentIndex]) ELSE None,
           nextLesson |-> IF currentIndex < Len(lessons) - 1
                          THEN Some(lessons[currentIndex + 2]) ELSE None,
           currentIndex |-> currentIndex,
           totalLessons |-> Len(lessons),
           isFirst |-> currentIndex = 0,
           isLast |-> currentIndex = Len(lessons) - 1]

navOf(op, lessons, arg) ==
  IF op = "getLessonNavigation" THEN getLessonNavigation(lessons, arg)
  ELSE NoNav

----------------------------------------------------------------------------
(* Build modes and content stores the model runs over *)

\* process.env.NODE_ENV, import.meta.env.PROD / VITE_DEBUG of a server-side
\* build: PROD is derived from NODE_ENV; metaOK says import.meta.env exists
Envs ==
  {[NODE_ENV |-> n, PROD |-> (n = "production"), VITE_DEBUG |-> d,
    metaOK |-> TRUE, hasWindow |-> FALSE, urlDebug |-> FALSE] :
     n \in {"production", "development", "test"}, d \in BOOLEAN}

\* content on disk, in store order, and the same content after it is edited
StoreV1 ==
  << Course(sA, sT, 2, FALSE, sT),
     Course(sAB, sT, 3, TRUE, sT),
     Section(Join(sA, s1), sT, 1),
     Lesson(Join(Join(sA, s1), sY), sT, 2, 1, FALSE),
     Lesson(Join(Join(sA, s1), sX), sT, 1, 1, TRUE),
     Post(sX, 1, FALSE),
     Post(sY, 2, TRUE) >>

StoreV2 ==
  << Course(sA, sU, 4, FALSE, sT),
     Course(sAB, sT, 3, TRUE, sT),
     Section(Join(sA, s1), sU, 2),
     Lesson(Join(Join(sA, s1), sY), sU, 1, 1, FALSE),
     Lesson(Join(Join(sA, s1), sX), sT, 2, 1, TRUE),
     Lesson(Join(Join(sA, s1), sZ), <<Space>>, 3, 1, FALSE),
     Post(sX, 3, FALSE),
     Post(sY, 2, TRUE) >>

\* the calls page code makes in Spec: <<operation, aggregation fn, key, arg>>
Requests ==
  { <<"getSortedCourses", "getSortedCourses", <<>>, <<>>>>,
    <<"getSortedSections", "getSortedSections", sA, <<>>>>,
    <<"getSortedLessons", "getSortedLessons", Join(sA, s1), <<>>>>,
    <<"getAllCourseLessons", "getAllCourseLessons", sA, <<>>>>,
    <<"getRawSortedPosts", "getRawSortedPosts", <<>>, <<>>>> }

CachedFns ==
  {"getSortedCourses", "getSortedSections", "getSortedLessons",
   "getAllCourseLessons"}

----------------------------------------------------------------------------
(* State machine *)

FnKey(fn, key) == [fn |-> fn, key |-> key]

\* no call of batchPreloadCourseData has been made
NoBatch ==
  [status |-> "idle", courseSlugs |-> <<>>, batchSize |-> 1, i |-> 0,
   failed |-> FALSE]

\* siteConfig.pinnedCourse of a site that pins nothing
NoPin == [enable |-> FALSE, courseSlug |-> <<>>]

NoEvent ==
  [kind |-> "init", op |-> "none", fn |-> "none", key |-> <<>>, arg |-> <<>>,
   invoked |-> FALSE, snapshot |-> <<>>, fetched |-> <<>>, result |-> <<>>,
   nav |-> NoNav, prev |-> None, populated |-> FALSE,
   firstAfterClear |-> FALSE, peer |-> None,
   cfg |-> NoPin, fault |-> "none", threw |-> FALSE, warnings |-> <<>>,
   out |-> <<>>, invokedFns |-> {}, sequential |-> None]

\* the cache entry of (fn, key) exists, whatever its age
populatedIn(cc, fn, key) ==
  CASE fn = "getSortedCourses" -> cc.courses.has
    [] fn = "getRawSortedPosts" -> FALSE
    [] OTHER -> key \in DOMAIN cc[spaceOf(fn)]

prevOf(fn, key) ==
  IF FnKey(fn, key) \in DOMAIN lastResult
  THEN Some(lastResult[FnKey(fn, key)]) ELSE None

isFirstAfterClear(fn, key) ==
  fn \in CachedFns /\ fresh.cleared /\ FnKey(fn, key) \notin fresh.begun

noteBegun(fn, key) ==
  IF fresh.cleared /\ fn \in CachedFns
  THEN [fresh EXCEPT !.begun = @ \cup {FnKey(fn, key)}] ELSE fresh

noteResult(fn, key, result) ==
  IF fn \in CachedFns THEN Put(lastResult, FnKey(fn, key), result)
  ELSE lastResult

\* a call that finds its entry in the cache and returns without awaiting
HitStep(op, fn, key, arg) ==
  LET o == hitOutcome(env, contentCache, sortCache, fn, key)
  IN /\ contentCache' = o.cc
     /\ sortCache' = o.sc
     /\ lastResult' = noteResult(fn, key, o.result)
     /\ fresh' = noteBegun(fn, key)
     /\ last' = [NoEvent EXCEPT !.kind = "hit", !.op = op, !.fn = fn,
                   !.key = key, !.arg = arg, !.result = o.result,
                   !.nav = navOf(op, o.result, arg),
                   !.prev = prevOf(fn, key),
                   !.populated = populatedIn(contentCache, fn, key),
                   !.firstAfterClear = isFirstAfterClear(fn, key)]

\* the call record of a call that missed: getCollection has been invoked
NewCall(op, fn, key, arg) ==
  [op |-> op, fn |-> fn, key |-> key, arg |-> arg, snapshot |-> store,
   fetched |-> query(env, store, fn, key), peer |-> None]

\* the continuation of a call after its getCollection promise resolved
DoneStep(c) ==
  LET o == missOutcome(env, contentCache, sortCache, now, c.fn, c.key,
                       c.fetched)
  IN /\ contentCache' = o.cc
     /\ sortCache' = o.sc
     /\ lastResult' = noteResult(c.fn, c.key, o.result)
     /\ last' = [NoEvent EXCEPT !.kind = "done", !.op = c.op, !.fn = c.fn,
                   !.key = c.key, !.arg = c.arg, !.invoked = TRUE,
                   !.snapshot = c.snapshot, !.fetched = c.fetched,
                   !.result = o.result, !.nav = navOf(c.op, o.result, c.arg),
                   !.peer = c.peer]

Init ==
  /\ env \in Envs
  /\ CACHE_TTL = cacheTTL(env)
  /\ now = 1
  /\ store = StoreV1
  /\ contentCache = EmptyCache
  /\ sortCache = EmptySortCache
  /\ calls = EmptyBag
  /\ started = 0
  /\ last = NoEvent
  /\ lastResult = EmptyMap
  /\ fresh = [cleared |-> FALSE, begun |-> {}]
  /\ localStorage = EmptyMap
  /\ batch = NoBatch

\* an aggregation function is called: cache test, then hit or getCollection
Begin(op, fn, key, arg) ==
  /\ started < MaxStarted
  /\ started' = started + 1
  /\ IF cacheHit(contentCache, CACHE_TTL, now, fn, key)
     THEN /\ HitStep(op, fn, key, arg)
          /\ UNCHANGED calls
     ELSE /\ BagCardinality(calls) < MaxCalls
          /\ calls' = calls (+) SetToBag({NewCall(op, fn, key, arg)})
          /\ fresh' = noteBegun(fn, key)
          /\ last' = [NoEvent EXCEPT !.kind = "miss", !.op = op, !.fn = fn,
                        !.key = key, !.arg = arg, !.invoked = TRUE,
                        !.prev = prevOf(fn, key),
                        !.populated = populatedIn(contentCache, fn, key),
                        !.firstAfterClear = isFirstAfterClear(fn, key)]
          /\ UNCHANGED <<contentCache, sortCache, lastResult>>
  /\ UNCHANGED <<localStorage, batch>>
  /\ UNCHANGED <<env, CACHE_TTL, now, store>>

\* a pending call resumes; calls that overlapped it on the same key with the
\* same fetched records remember what it returned
Complete(c) ==
  /\ BagIn(c, calls)
  /\ DoneStep(c)
  /\ LET r == missOutcome(env, contentCache, sortCache, now, c.fn, c.key,
                          c.fetched).result
         Seen(d) == IF d.fn = c.fn /\ d.key = c.key /\ d.fetched = c.fetched
                    THEN [d EXCEPT !.peer = Some(r)] ELSE d
     IN calls' = BagOfAll(Seen, calls (-) SetToBag({c}))
  /\ UNCHANGED <<localStorage, batch>>
  /\ UNCHANGED <<env, CACHE_TTL, now, store, started, fresh>>

ClearContentCache ==
  /\ contentCache' = clearContentCache(contentCache)
  /\ lastResult' = EmptyMap
  /\ fresh' = [cleared |-> TRUE, begun |-> {}]
  /\ last' = [NoEvent EXCEPT !.kind = "clear",
                             !.populated = (contentCache # EmptyCache)]
  /\ UNCHANGED <<localStorage, batch>>
  /\ UNCHANGED <<env, CACHE_TTL, now, store, sortCache, calls, started>>

\* the content on disk is edited
StoreChange ==
  /\ store = StoreV1
  /\ store' = StoreV2
  /\ UNCHANGED <<localStorage, batch>>
  /\ UNCHANGED <<env, CACHE_TTL, now, contentCache, sortCache, calls, started,
                 last, lastResult, fresh>>

\* Date.now() advances
Tick ==
  /\ now < MaxClock
  /\ now' = now + 1
  /\ UNCHANGED <<localStorage, batch>>
  /\ UNCHANGED <<env, CACHE_TTL, store, contentCache, sortCache, calls,
                 started, last, lastResult, fresh>>

BeginAny == \E r \in Requests : Begin(r[1], r[2], r[3], r[4])
CompleteAny == \E c \in BagToSet(calls) : Complete(c)

Next == BeginAny \/ CompleteAny \/ ClearContentCache \/ StoreChange \/ Tick

Spec == Init /\ [][Next]_vars

----------------------------------------------------------------------------
(* Properties of the cache and of draft visibility, checked under Spec *)

ListingFns ==
  {"getSortedCourses", "getSortedLessons", "getAllCourseLessons",
   "getRawSortedPosts"}

KeyedFns == {"getSortedSections", "getSortedLessons", "getAllCourseLessons"}

\* e is a record the listing (fn, key) ranges over, drafts included
InScope(e, fn, key) ==
  CASE fn = "getSortedCourses" ->
         e.collection = "courses" /\ e.type = "course" /\ validEntry(e)
    [] fn \in {"getSortedLessons", "getAllCourseLessons"} ->
         e.collection = "courses" /\ e.type = "lesson"
           /\ StartsWith(e.id, key) /\ validEntry(e)
    [] fn = "getRawSortedPosts" -> e.collection = "posts"
    [] OTHER -> FALSE

comparatorOf(fn) ==
  CASE fn = "getSortedCourses" -> "coursesByDate"
    [] fn = "getSortedSections" -> "sectionsByOrder"
    [] fn = "getSortedLessons" -> "lessonsByOrder"
    [] fn = "getAllCourseLessons" -> "lessonsBySectionAndOrder"
    [] fn = "getRawSortedPosts" -> "rawPostsByDate"

\* C1: for every listing operation, a draft record of the fetched content
\* appears in the result in production mode iff the debug override is
\* active, and always appears outside production mode.
C1_DraftVisibility ==
  (last.kind = "done" /\ last.fn \in ListingFns) =>
    \A e \in Range(last.snapshot) :
      (InScope(e, last.fn, last.key) /\ e.draft) =>
        ((e \in Range(last.result)) <=> (~env.PROD \/ env.VITE_DEBUG))

\* C2: in production mode a call to an aggregation function that follows a
\* returned call of the same function and key, with no clearContentCache()
\* in between, returns the same result and does not invoke the Store Adapter.
C2_ConsecutiveCallsHit ==
  (last.kind \in {"hit", "miss"} /\ last.fn \in CachedFns
     /\ env.NODE_ENV = "production" /\ last.prev.has) =>
    (last.kind = "hit" /\ ~last.invoked /\ last.result = last.prev.val)

C2_Witness ==
  /\ last.kind = "hit" /\ last.fn \in CachedFns
  /\ env.NODE_ENV = "production" /\ last.prev.has
  /\ Len(last.result) > 0
  /\ validateCourseEntries(query(env, store, last.fn, last.key))
       # validateCourseEntries(last.result)

\* C3: after clearContentCache() the next call of an aggregation function
\* invokes the Store Adapter, for every key, also when earlier calls are
\* still in flight.
C3_ClearForcesRefetch ==
  (last.kind \in {"hit", "miss"} /\ last.firstAfterClear) => last.invoked

\* C4: on every cache miss the value returned is the validated, sorted list
\* of exactly the records the Store Adapter returned in that call, and for
\* the keyed functions it is the value stored in the cache.
C4_MissReturnsFreshFetch ==
  (last.kind = "done" /\ last.fn \in CachedFns) =>
    /\ last.result = sortFresh(comparatorOf(last.fn),
                               validateCourseEntries(last.fetched))
    /\ last.fn \in KeyedFns =>
         contentCache[spaceOf(last.fn)][last.key] = last.result

C20_ClearResetsCache ==
  last.kind = "clear" =>
    /\ ~contentCache.courses.has
    /\ DOMAIN contentCache.courseLessons = {}
    /\ DOMAIN contentCache.courseSections = {}
    /\ DOMAIN contentCache.sectionLessons = {}
    /\ contentCache.lastUpdated = 0
    /\ clearContentCache(contentCache) = contentCache

C20_Witness ==
  /\ last.kind = "clear" /\ last.populated
  /\ sortCache.all_lessons # EmptyMap
  /\ sortCache.courses # EmptyMap

----------------------------------------------------------------------------
(* Sequential calls over arbitrary small stores: SeqSpec *)

sC == <<99>>
sQ == <<113>>

CourseCatalogue ==
  { Course(sA, sT, 2, FALSE, sT),
    Course(sAB, sT, 3, TRUE, sT),
    Course(sB, sT, 2, FALSE, sT),
    Course(sC, sT, 4, FALSE, <<>>),
    Lesson(Join(Join(sA, s2), sY), <<Space>>, 2, 1, FALSE) }

SectionCatalogue ==
  { Section(Join(sA, s1), sT, 2),
    Section(Join(sA, s2), sT, 1),
    Section(Join(sAB, s1), <<>>, 1),
    Course(sA, sT, 2, FALSE, sT) }

LessonCatalogue ==
  { Lesson(Join(Join(sA, s1), sX), sT, 3, 1, FALSE),
    Lesson(Join(Join(sA, s1), sY), sT, 1, 2, FALSE),
    Lesson(Join(Join(sA, s1), sZ), sT, 2, 3, FALSE),
    Lesson(Join(Join(sA, s2), sX), sT, 1, 1, TRUE),
    Lesson(Join(Join(sAB, s1), sX), sT, 2, 1, FALSE) }

PostCatalogue ==
  { Post(sX, 1, FALSE), Post(sY, 2, TRUE), Post(sZ, 2, FALSE) }

\* the sequences of at most MaxLen distinct elements of S
Arrangements(S) ==
  UNION { {f \in [1..n -> S] : \A i, j \in 1..n : i # j => f[i] # f[j]} :
          n \in 0..MaxLen }

SeqStores ==
  Arrangements(CourseCatalogue) \cup Arrangements(SectionCatalogue)
    \cup Arrangements(LessonCatalogue) \cup Arrangements(PostCatalogue)

SeqCourseSlugs == {sA, sAB}
SeqSectionSlugs == {Join(sA, s1), Join(sA, s2)}
SeqLessonSlugs ==
  { Join(Join(sA, s1), sY), Join(Join(sA, s1), sZ), Join(Join(sA, s2), sX),
    Join(Join(sA, s1), sQ) }

SeqInit ==
  /\ env \in Envs
  /\ CACHE_TTL = cacheTTL(env)
  /\ now = 1
  /\ store \in SeqStores
  /\ contentCache = EmptyCache
  /\ sortCache = EmptySortCache
  /\ calls = EmptyBag
  /\ started = 0
  /\ last = NoEvent
  /\ lastResult = EmptyMap
  /\ fresh = [cleared |-> FALSE, begun |-> {}]
  /\ localStorage = EmptyMap
  /\ batch = NoBatch

\* a call whose getCollection promise resolves before anything else runs
SeqCall(op, fn, key, arg) ==
  /\ started < MaxSeqCalls
  /\ started' = started + 1
  /\ IF cacheHit(contentCache, CACHE_TTL, now, fn, key)
     THEN HitStep(op, fn, key, arg)
     ELSE DoneStep(NewCall(op, fn, key, arg)) /\ fresh' = noteBegun(fn, key)
  /\ UNCHANGED <<localStorage, batch>>
  /\ UNCHANGED <<env, CACHE_TTL, now, store, calls>>

SeqGetSortedCourses ==
  SeqCall("getSortedCourses", "getSortedCourses", <<>>, <<>>)

SeqGetSortedSections ==
  \E c \in SeqCourseSlugs :
    SeqCall("getSortedSections", "getSortedSections", c, <<>>)

SeqGetSortedLessons ==
  \E k \in SeqSectionSlugs :
    SeqCall("getSortedLessons", "getSortedLessons", k, <<>>)

SeqGetAllCourseLessons ==
  \E c \in SeqCourseSlugs :
    SeqCall("getAllCourseLessons", "getAllCourseLessons", c, <<>>)

SeqGetLessonNavigation ==
  \E l \in SeqLessonSlugs :
    SeqCall("getLessonNavigation", "getAllCourseLessons", sA, l)

SeqGetRawSortedPosts ==
  SeqCall("getRawSortedPosts", "getRawSortedPosts", <<>>, <<>>)

SeqNext ==
  \/ SeqGetSortedCourses
  \/ SeqGetSortedSections
  \/ SeqGetSortedLessons
  \/ SeqGetAllCourseLessons
  \/ SeqGetLessonNavigation
  \/ SeqGetRawSortedPosts

SeqSpec == SeqInit /\ [][SeqNext]_vars

----------------------------------------------------------------------------
(* Properties of the orderings and of navigation, checked under SeqSpec *)

Returned == last.kind \in {"hit", "done"}

\* a is at most b in code-unit lexicographic order
LexLeq(a, b) ==
  \/ a = b
  \/ Len(a) < Len(b) /\ SubSeq(b, 1, Len(a)) = a
  \/ \E k \in 1..Len(a) :
       /\ k <= Len(b)
       /\ a[k] < b[k]
       /\ \A m \in 1..(k - 1) : a[m] = b[m]

\* C7: in the result of getSortedCourses() and of the sorted post listing,
\* a record that appears before another has a published date at least as late.
C7_DateDescending ==
  (Returned /\ last.fn \in {"getSortedCourses", "getRawSortedPosts"}) =>
    \A i, j \in DOMAIN last.result :
      i < j => last.result[i].published >= last.result[j].published

C7_Witness ==
  /\ Returned /\ last.fn = "getSortedCourses"
  /\ Len(last.result) >= 2
  /\ last.result # validateCourseEntries(last.fetched)
  /\ last.result[1].published > last.result[2].published

\* C8: in the result of getSortedSections(courseSlug) and of
\* getSortedLessons(sectionSlug), a record that appears before another has an
\* order no larger; lessons with orders [3,1,2] come back as [1,2,3].
C8_OrderAscending ==
  (Returned /\ last.fn \in {"getSortedSections", "getSortedLessons"}) =>
    \A i, j \in DOMAIN last.result :
      i < j => last.result[i].order <= last.result[j].order

C8_Witness ==
  /\ Returned /\ last.fn = "getSortedLessons"
  /\ [i \in DOMAIN last.fetched |-> last.fetched[i].order] = <<3, 1, 2>>
  /\ [i \in DOMAIN last.result |-> last.result[i].order] = <<1, 2, 3>>

\* C9: in the result of getAllCourseLessons(courseSlug), lessons are grouped
\* by the section segment of their id in ascending string order, and within
\* one section they are in ascending order of their order field.
C9_SectionThenOrder ==
  (Returned /\ last.fn = "getAllCourseLessons") =>
    \A i, j \in DOMAIN last.result :
      i < j =>
        LET a == last.result[i]
            b == last.result[j]
        IN /\ LexLeq(Split(a.id)[2], Split(b.id)[2])
           /\ Split(a.id)[2] = Split(b.id)[2] => a.order <= b.order

C9_Witness ==
  /\ Returned /\ last.fn = "getAllCourseLessons"
  /\ Len(last.result) >= 3
  /\ last.result # validateCourseEntries(last.fetched)
  /\ \E i, j \in DOMAIN last.result :
       /\ i < j
       /\ Split(last.result[i].id)[2] # Split(last.result[j].id)[2]
       /\ last.result[i].order > last.result[j].order

\* C10: for a lesson found at index i of the n lessons of
\* getAllCourseLessons(courseSlug), getLessonNavigation returns
\* currentIndex = i, totalLessons = n, the lessons at i-1 and i+1 as
\* previousLesson and nextLesson (absent iff i = 0, resp. i = n-1), isFirst
\* iff i = 0 and isLast iff i = n-1; it returns null iff no lesson has the slug.
C10_Navigation ==
  (Returned /\ last.op = "getLessonNavigation") =>
    LET lessons == last.result
        n == Len(lessons)
        nav == last.nav
        i == nav.currentIndex
    IN /\ nav.found <=> \E k \in 1..n : lessons[k].slug = last.arg
       /\ nav.found =>
            /\ i \in 0..(n - 1)
            /\ lessons[i + 1].slug = last.arg
            /\ \A k \in 1..i : lessons[k].slug # last.arg
            /\ nav.currentLesson = Some(lessons[i + 1])
            /\ nav.totalLessons = n
            /\ nav.previousLesson.has <=> i # 0
            /\ nav.nextLesson.has <=> i # n - 1
            /\ i > 0 => nav.previousLesson.val = lessons[i]
            /\ i < n - 1 => nav.nextLesson.val = lessons[i + 2]
            /\ nav.isFirst <=> i = 0
            /\ nav.isLast <=> i = n - 1

C10_Witness ==
  /\ Returned /\ last.op = "getLessonNavigation"
  /\ last.nav.found
  /\ last.nav.currentIndex = 1
  /\ last.nav.totalLessons = 3
  /\ last.nav.previousLesson.has /\ last.nav.nextLesson.has

----------------------------------------------------------------------------
(* Page-level operations run to completion one after another: PageSpec *)

\* the caches as one value threaded through the awaits of an operation
Caches(cc, sc) == [cc |-> cc, sc |-> sc]

\* await fn(key) run to completion: the cache test, then the cached value,
\* or getCollection and the continuation; rejects is TRUE when the
\* getCollection promise of this call rejects
awaitCall(s, fn, key, rejects) ==
  LET Settled(o, invoked) ==
        [cc |-> o.cc, sc |-> o.sc, result |-> o.result, threw |-> FALSE,
         invoked |-> invoked]
  IN IF cacheHit(s.cc, CACHE_TTL, now, fn, key)
     THEN Settled(hitOutcome(env, s.cc, s.sc, fn, key), FALSE)
     ELSE IF rejects
     THEN [cc |-> s.cc, sc |-> s.sc, result |-> <<>>, threw |-> TRUE,
           invoked |-> TRUE]
     ELSE Settled(missOutcome(env, s.cc, s.sc, now, fn, key,
                              query(env, store, fn, key)), TRUE)

\* mutation: the lessons of the first section only are counted
getCourseLessonCount_FirstSection(s, courseSlug, fault) ==
  LET Counted(r) ==
        LET InFirst(e) == sectionOf(e) = sectionOf(r.result[1])
        IN [cc |-> r.cc, sc |-> r.sc, threw |-> r.threw,
            lessons |-> r.result,
            value |-> IF r.threw THEN -1
                      ELSE Len(SelectSeq(r.result, InFirst)),
            warnings |-> <<>>,
            invokedFns |-> IF r.invoked THEN {"getAllCourseLessons"} ELSE {}]
  IN Counted(awaitCall(s, "getAllCourseLessons", courseSlug,
                       fault = "getAllCourseLessons"))

\* getCourseLessonCount(courseSlug): (await getAllCourseLessons(slug)).length
getCourseLessonCount(s, courseSlug, fault) ==
  LET Counted(r) ==
        [cc |-> r.cc, sc |-> r.sc, threw |-> r.threw,
         lessons |-> r.result,
         value |-> IF r.threw THEN -1 ELSE Len(r.result),
         warnings |-> <<>>,
         invokedFns |-> IF r.invoked THEN {"getAllCourseLessons"} ELSE {}]
  IN Counted(awaitCall(s, "getAllCourseLessons", courseSlug,
                       fault = "getAllCourseLessons"))

\* list.find(entry => entry.slug === slug)
find(list, slug) ==
  LET At(i) == IF i = -1 THEN None ELSE Some(list[i + 1])
  IN At(findIndex(list, slug))

\* the PostOrCourse item of a post; a post item has no totalLessons
PostItem(post) ==
  [type |-> "post", entry |-> post, slug |-> post.slug,
   published |-> post.published, draft |-> post.draft, totalLessons |-> -1]

\* mutation: the lesson count is left at zero
CourseItem_NoLessonCount(course, allLessons) ==
  [type |-> "course", entry |-> course, slug |-> course.slug,
   published |-> course.published, draft |-> course.draft,
   totalLessons |-> 0]

\* the PostOrCourse item of the pinned course
CourseItem(course, allLessons) ==
  [type |-> "course", entry |-> course, slug |-> course.slug,
   published |-> course.published, draft |-> course.draft,
   totalLessons |-> Len(allLessons)]

PostItems(posts) == [i \in DOMAIN posts |-> PostItem(posts[i])]

\* the pinned-course block of getSortedPostsWithPinnedCourse: the body of
\* its try, with the caches it leaves, the item pushed, and whether it threw
pinnedCourseLookup(s, cfg, fault) ==
  LET invC(c) == IF c.invoked THEN {"getSortedCourses"} ELSE {}
      Pushed(c, pinnedCourse, l) ==
        [cc |-> l.cc, sc |-> l.sc, threw |-> l.threw,
         items |-> IF l.threw THEN <<>>
                   ELSE <<CourseItem(pinnedCourse.val, l.result)>>,
         invokedFns |->
           invC(c) \cup (IF l.invoked THEN {"getAllCourseLessons"} ELSE {})]
      Found(c, pinnedCourse) ==
        IF c.threw \/ ~(pinnedCourse.has /\ pinnedCourse.val.type = "course")
        THEN [cc |-> c.cc, sc |-> c.sc, threw |-> c.threw, items |-> <<>>,
              invokedFns |-> invC(c)]
        ELSE Pushed(c, pinnedCourse,
                    awaitCall(c, "getAllCourseLessons", cfg.courseSlug,
                              fault = "getAllCourseLessons"))
      Listed(c) ==
        Found(c, IF c.threw THEN None ELSE find(c.result, cfg.courseSlug))
  IN Listed(awaitCall(s, "getSortedCourses", <<>>,
                      fault = "getSortedCourses"))

\* mutation: the pinned-course block has no try/catch
getSortedPostsWithPinnedCourse_NoCatch(s, cfg, fault) ==
  LET pinning == cfg.enable /\ cfg.courseSlug # <<>>
      Pinned(p, k) ==
        [cc |-> k.cc, sc |-> k.sc, threw |-> k.threw,
         value |-> IF k.threw THEN <<>> ELSE k.items \o PostItems(p.result),
         warnings |-> <<>>,
         invokedFns |-> {"getRawSortedPosts"} \cup k.invokedFns]
      Posts(p) ==
        IF p.threw
        THEN [cc |-> p.cc, sc |-> p.sc, threw |-> TRUE, value |-> <<>>,
              warnings |-> <<>>, invokedFns |-> {"getRawSortedPosts"}]
        ELSE IF ~pinning
        THEN [cc |-> p.cc, sc |-> p.sc, threw |-> FALSE,
              value |-> PostItems(p.result), warnings |-> <<>>,
              invokedFns |-> {"getRawSortedPosts"}]
        ELSE Pinned(p, pinnedCourseLookup(p, cfg, fault))
  IN Posts(awaitCall(s, "getRawSortedPosts", <<>>,
                     fault = "getRawSortedPosts"))

\* getSortedPostsWithPinnedCourse() under siteConfig.pinnedCourse = cfg
getSortedPostsWithPinnedCourse(s, cfg, fault) ==
  LET pinning == cfg.enable /\ cfg.courseSlug # <<>>
      Pinned(p, k) ==
        [cc |-> k.cc, sc |-> k.sc, threw |-> FALSE,
         value |-> k.items \o PostItems(p.result),
         warnings |-> IF k.threw THEN <<"Failed to load pinned course:">>
                      ELSE <<>>,
         invokedFns |-> {"getRawSortedPosts"} \cup k.invokedFns]
      Posts(p) ==
        IF p.threw
        THEN [cc |-> p.cc, sc |-> p.sc, threw |-> TRUE, value |-> <<>>,
              warnings |-> <<>>, invokedFns |-> {"getRawSortedPosts"}]
        ELSE IF ~pinning
        THEN [cc |-> p.cc, sc |-> p.sc, threw |-> FALSE,
              value |-> PostItems(p.result), warnings |-> <<>>,
              invokedFns |-> {"getRawSortedPosts"}]
        ELSE Pinned(p, pinnedCourseLookup(p, cfg, fault))
  IN Posts(awaitCall(s, "getRawSortedPosts", <<>>,
                     fault = "getRawSortedPosts"))

\* getCourseBySlug(courseSlug): courses.find(...) || null
getCourseBySlug(s, courseSlug, fault) ==
  LET Listed(c) ==
        [cc |-> c.cc, sc |-> c.sc, threw |-> c.threw,
         value |-> IF c.threw THEN None ELSE find(c.result, courseSlug),
         warnings |-> <<>>,
         invokedFns |-> IF c.invoked THEN {"getSortedCourses"} ELSE {}]
  IN Listed(awaitCall(s, "getSortedCourses", <<>>,
                      fault = "getSortedCourses"))

\* mutation: the bundle is built whether or not the course was found
getCourseDataBundle_NoNullCheck(s, courseSlug, fault) ==
  LET Joined(c, sec, les) ==
        [cc |-> les.cc, sc |-> les.sc,
         threw |-> c.threw \/ sec.threw \/ les.threw,
         value |-> IF c.threw \/ sec.threw \/ les.threw THEN None
                   ELSE Some([course |-> c.value, sections |-> sec.result,
                              lessons |-> les.result,
                              totalLessons |-> Len(les.result),
                              totalSections |-> Len(sec.result)]),
         warnings |-> <<>>,
         invokedFns |-> c.invokedFns
           \cup (IF sec.invoked THEN {"getSortedSections"} ELSE {})
           \cup (IF les.invoked THEN {"getAllCourseLessons"} ELSE {})]
      WithSections(c, sec) ==
        Joined(c, sec, awaitCall(sec, "getAllCourseLessons", courseSlug,
                                 fault = "getAllCourseLessons"))
      WithCourse(c) ==
        WithSections(c, awaitCall(c, "getSortedSections", courseSlug,
                                  fault = "getSortedSections"))
  IN WithCourse(getCourseBySlug(s, courseSlug, fault))

\* getCourseDataBundle(courseSlug): the three calls of its Promise.all use
\* different key-spaces of the cache and each runs to its end whether or not
\* another one rejects; the join rejects when one of them does
getCourseDataBundle(s, courseSlug, fault) ==
  LET Joined(c, sec, les) ==
        [cc |-> les.cc, sc |-> les.sc,
         threw |-> c.threw \/ sec.threw \/ les.threw,
         value |-> IF c.threw \/ sec.threw \/ les.threw \/ ~c.value.has
                   THEN None
                   ELSE Some([course |-> c.value, sections |-> sec.result,
                              lessons |-> les.result,
                              totalLessons |-> Len(les.result),
                              totalSections |-> Len(sec.result)]),
         warnings |-> <<>>,
         invokedFns |-> c.invokedFns
           \cup (IF sec.invoked THEN {"getSortedSections"} ELSE {})
           \cup (IF les.invoked THEN {"getAllCourseLessons"} ELSE {})]
      WithSections(c, sec) ==
        Joined(c, sec, awaitCall(sec, "getAllCourseLessons", courseSlug,
                                 fault = "getAllCourseLessons"))
      WithCourse(c) ==
        WithSections(c, awaitCall(c, "getSortedSections", courseSlug,
                                  fault = "getSortedSections"))
  IN WithCourse(getCourseBySlug(s, courseSlug, fault))

\* await getAllCourseLessons(courseSlug), then the navigation record
lessonNavigation(s, courseSlug, currentLessonSlug, fault) ==
  LET Listed(r) ==
        [cc |-> r.cc, sc |-> r.sc, threw |-> r.threw,
         value |-> IF r.threw THEN NoNav
                   ELSE getLessonNavigation(r.result, currentLessonSlug),
         warnings |-> <<>>,
         invokedFns |-> IF r.invoked THEN {"getAllCourseLessons"} ELSE {}]
  IN Listed(awaitCall(s, "getAllCourseLessons", courseSlug,
                      fault = "getAllCourseLessons"))

\* an ArchiveContentItem; courseTitle and sectionTitle are set for lessons
ArchiveItem(type, e, courseTitle, sectionTitle) ==
  [slug |-> e.slug, type |-> type, title |-> e.title,
   published |-> e.published, courseTitle |-> courseTitle,
   sectionTitle |-> sectionTitle]

ArchiveItems(type, entries) ==
  [i \in DOMAIN entries |-> ArchiveItem(type, entries[i], <<>>, <<>>)]

RECURSIVE archiveSectionLessons(_, _, _, _, _)
\* for (const section of sections): await getSortedLessons(section.slug) and
\* push an item per lesson, from section i on; a rejected call ends the loop
archiveSectionLessons(s, course, sections, i, fault) ==
  IF i > Len(sections)
  THEN [cc |-> s.cc, sc |-> s.sc, threw |-> FALSE, items |-> <<>>,
        invokedFns |-> {}]
  ELSE LET IsLesson(e) == e.type = "lesson"
           Items(lessons) ==
             [k \in DOMAIN lessons |->
                ArchiveItem("lesson", lessons[k], course.title,
                            sections[i].title)]
           inv(r) == IF r.invoked THEN {"getSortedLessons"} ELSE {}
           Pushed(r, rest) ==
             [cc |-> rest.cc, sc |-> rest.sc, threw |-> rest.threw,
              items |-> Items(SelectSeq(r.result, IsLesson)) \o rest.items,
              invokedFns |-> inv(r) \cup rest.invokedFns]
           Listed(r) ==
             IF r.threw
             THEN [cc |-> r.cc, sc |-> r.sc, threw |-> TRUE, items |-> <<>>,
                   invokedFns |-> inv(r)]
             ELSE Pushed(r, archiveSectionLessons(r, course, sections, i + 1,
                                                  fault))
       IN Listed(awaitCall(s, "getSortedLessons", sections[i].slug,
                           fault = "getSortedLessons"))

RECURSIVE archiveCourseLessons(_, _, _, _)
\* for (const course of courses): await getSortedSections(course.slug), then
\* the lessons of its sections, from course i on
archiveCourseLessons(s, courses, i, fault) ==
  IF i > Len(courses)
  THEN [cc |-> s.cc, sc |-> s.sc, threw |-> FALSE, items |-> <<>>,
        invokedFns |-> {}]
  ELSE IF courses[i].type # "course"
  THEN archiveCourseLessons(s, courses, i + 1, fault)
  ELSE LET inv(r) == IF r.invoked THEN {"getSortedSections"} ELSE {}
           Following(r, mine, rest) ==
             [cc |-> rest.cc, sc |-> rest.sc, threw |-> rest.threw,
              items |-> mine.items \o rest.items,
              invokedFns |-> inv(r) \cup mine.invokedFns
                               \cup rest.invokedFns]
           Pushed(r, mine) ==
             IF mine.threw
             THEN [cc |-> mine.cc, sc |-> mine.sc, threw |-> TRUE,
                   items |-> <<>>, invokedFns |-> inv(r) \cup mine.invokedFns]
             ELSE Following(r, mine,
                            archiveCourseLessons(mine, courses, i + 1, fault))
           Listed(r) ==
             IF r.threw
             THEN [cc |-> r.cc, sc |-> r.sc, threw |-> TRUE, items |-> <<>>,
                   invokedFns |-> inv(r)]
             ELSE Pushed(r, archiveSectionLessons(r, courses[i], r.result, 1,
                                                  fault))
       IN Listed(awaitCall(s, "getSortedSections", courses[i].slug,
                           fault = "getSortedSections"))

\* getCombinedArchiveContent()
getCombinedArchiveContent(s, fault) ==
  LET IsCourse(e) == e.type = "course"
      invP == {"getRawSortedPosts"}
      invC(c) == IF c.invoked THEN {"getSortedCourses"} ELSE {}
      combinedContent(p, c, l) ==
        ArchiveItems("post", p.result)
          \o ArchiveItems("course", SelectSeq(c.result, IsCourse))
          \o l.items
      Sorted(p, c, l) ==
        [cc |-> l.cc, sc |-> l.sc, threw |-> l.threw,
         value |-> IF l.threw THEN <<>>
                   ELSE nativeSort("archiveByDate", combinedContent(p, c, l)),
         warnings |-> <<>>,
         invokedFns |-> invP \cup invC(c) \cup l.invokedFns]
      Courses(p, c) ==
        IF c.threw
        THEN [cc |-> c.cc, sc |-> c.sc, threw |-> TRUE, value |-> <<>>,
              warnings |-> <<>>, invokedFns |-> invP \cup invC(c)]
        ELSE Sorted(p, c, archiveCourseLessons(c, c.result, 1, fault))
      Posts(p) ==
        IF p.threw
        THEN [cc |-> p.cc, sc |-> p.sc, threw |-> TRUE, value |-> <<>>,
              warnings |-> <<>>, invokedFns |-> invP]
        ELSE Courses(p, awaitCall(p, "getSortedCourses", <<>>,
                                  fault = "getSortedCourses"))
  IN Posts(awaitCall(s, "getRawSortedPosts", <<>>,
                     fault = "getRawSortedPosts"))

RECURSIVE preloadCourseData_LessonsOnly(_, _, _, _)
\* mutation: the sections of the courses are not preloaded
preloadCourseData_LessonsOnly(s, courseSlugs, i, fault) ==
  IF i > Len(courseSlugs)
  THEN [cc |-> s.cc, sc |-> s.sc, threw |-> FALSE, invokedFns |-> {}]
  ELSE LET Joined(l, rest) ==
             [cc |-> rest.cc, sc |-> rest.sc,
              threw |-> l.threw \/ rest.threw,
              invokedFns |->
                (IF l.invoked THEN {"getAllCourseLessons"} ELSE {})
                  \cup rest.invokedFns]
           Lessons(l) ==
             Joined(l, preloadCourseData_LessonsOnly(l, courseSlugs, i + 1,
                                                     fault))
       IN Lessons(awaitCall(s, "getAllCourseLessons", courseSlugs[i],
                            fault = "getAllCourseLessons"))

RECURSIVE preloadCourseData(_, _, _, _)
\* preloadCourseData(courseSlugs): for every slug, from slug i on,
\* Promise.all([getAllCourseLessons(slug), getSortedSections(slug)]); every
\* call runs to its end, and the join rejects when one of them does
preloadCourseData(s, courseSlugs, i, fault) ==
  IF i > Len(courseSlugs)
  THEN [cc |-> s.cc, sc |-> s.sc, threw |-> FALSE, invokedFns |-> {}]
  ELSE LET Joined(l, sec, rest) ==
             [cc |-> rest.cc, sc |-> rest.sc,
              threw |-> l.threw \/ sec.threw \/ rest.threw,
              invokedFns |->
                (IF l.invoked THEN {"getAllCourseLessons"} ELSE {})
                  \cup (IF sec.invoked THEN {"getSortedSections"} ELSE {})
                  \cup rest.invokedFns]
           Sections(l, sec) ==
             Joined(l, sec, preloadCourseData(sec, courseSlugs, i + 1, fault))
           Lessons(l) ==
             Sections(l, awaitCall(l, "getSortedSections", courseSlugs[i],
                                   fault = "getSortedSections"))
       IN Lessons(awaitCall(s, "getAllCourseLessons", courseSlugs[i],
                            fault = "getAllCourseLessons"))

\* array.slice(from, to) with 0-based bounds
Slice(arr, from, to) ==
  SubSeq(arr, from + 1, IF to < Len(arr) THEN to ELSE Len(arr))

RECURSIVE batchPreloadCourseData(_, _, _, _, _)
\* batchPreloadCourseData(courseSlugs, batchSize), from index i on: a batch
\* starts when the one before it has finished, and not at all once one threw
batchPreloadCourseData(s, courseSlugs, batchSize, i, fault) ==
  IF i >= Len(courseSlugs)
  THEN [cc |-> s.cc, sc |-> s.sc, threw |-> FALSE, invokedFns |-> {}]
  ELSE LET Following(b, rest) ==
             [cc |-> rest.cc, sc |-> rest.sc, threw |-> rest.threw,
              invokedFns |-> b.invokedFns \cup rest.invokedFns]
           Batch(b) ==
             IF b.threw THEN b
             ELSE Following(b, batchPreloadCourseData(b, courseSlugs,
                                 batchSize, i + batchSize, fault))
       IN Batch(preloadCourseData(s, Slice(courseSlugs, i, i + batchSize), 1,
                                  fault))

\* mutation: the failure of the preload is rethrown
preloadHomepageData_Rethrows(s, fault) ==
  LET invC(c) == IF c.invoked THEN {"getSortedCourses"} ELSE {}
      recentCourseSlugs(c) ==
        [i \in DOMAIN Slice(c.result, 0, 5) |-> c.result[i].slug]
      Preloaded(c, b) ==
        [cc |-> b.cc, sc |-> b.sc, threw |-> b.threw, value |-> <<>>,
         warnings |-> <<>>, invokedFns |-> invC(c) \cup b.invokedFns]
      Listed(c) ==
        IF c.threw
        THEN [cc |-> c.cc, sc |-> c.sc, threw |-> TRUE, value |-> <<>>,
              warnings |-> <<>>, invokedFns |-> invC(c)]
        ELSE Preloaded(c, batchPreloadCourseData(c, recentCourseSlugs(c), 2,
                                                 0, fault))
  IN Listed(awaitCall(s, "getSortedCourses", <<>>,
                      fault = "getSortedCourses"))

\* preloadHomepageData(): the whole body is in a try whose catch warns
preloadHomepageData(s, fault) ==
  LET invC(c) == IF c.invoked THEN {"getSortedCourses"} ELSE {}
      recentCourseSlugs(c) ==
        [i \in DOMAIN Slice(c.result, 0, 5) |-> c.result[i].slug]
      Preloaded(c, b) ==
        [cc |-> b.cc, sc |-> b.sc, threw |-> FALSE, value |-> <<>>,
         warnings |-> IF b.threw
                      THEN <<"Failed to preload homepage data:">>
                      ELSE <<>>,
         invokedFns |-> invC(c) \cup b.invokedFns]
      Listed(c) ==
        IF c.threw
        THEN [cc |-> c.cc, sc |-> c.sc, threw |-> FALSE, value |-> <<>>,
              warnings |-> <<"Failed to preload homepage data:">>,
              invokedFns |-> invC(c)]
        ELSE Preloaded(c, batchPreloadCourseData(c, recentCourseSlugs(c), 2,
                                                 0, fault))
  IN Listed(awaitCall(s, "getSortedCourses", <<>>,
                      fault = "getSortedCourses"))

\* content stores the page-level operations run over
StoreV3 ==
  << Course(sB, sT, 5, FALSE, <<>>),
     Course(sA, sT, 2, FALSE, sT),
     Course(sAB, sT, 3, TRUE, sT),
     Section(Join(sA, s1), sT, 1),
     Section(Join(sA, s2), <<>>, 2),
     Section(Join(sAB, s1), sU, 1),
     Lesson(Join(Join(sA, s1), sX), sT, 2, 4, FALSE),
     Lesson(Join(Join(sA, s1), sY), sT, 1, 1, TRUE),
     Lesson(Join(Join(sA, s2), sX), sT, 1, 3, FALSE),
     Lesson(Join(Join(sAB, s1), sX), sT, 1, 2, FALSE),
     Post(sX, 1, FALSE),
     Post(sY, 3, TRUE),
     Post(sZ, 3, FALSE) >>

PageStores == {<<>>, StoreV2, StoreV3}

PageInit ==
  /\ env \in Envs
  /\ CACHE_TTL = cacheTTL(env)
  /\ now = 1
  /\ store \in PageStores
  /\ contentCache = EmptyCache
  /\ sortCache = EmptySortCache
  /\ calls = EmptyBag
  /\ started = 0
  /\ last = NoEvent
  /\ lastResult = EmptyMap
  /\ fresh = [cleared |-> FALSE, begun |-> {}]
  /\ localStorage = EmptyMap
  /\ batch = NoBatch

\* an operation returned or threw: the caches it leaves and what it gave
PageDone(op, key, arg, cfg, fault, o, result, out) ==
  /\ started < MaxPageCalls
  /\ started' = started + 1
  /\ contentCache' = o.cc
  /\ sortCache' = o.sc
  /\ last' = [NoEvent EXCEPT !.kind = "page", !.op = op, !.key = key,
                !.arg = arg, !.cfg = cfg, !.fault = fault,
                !.snapshot = store, !.result = result, !.out = out,
                !.threw = o.threw, !.invokedFns = o.invokedFns,
                !.warnings = o.warnings,
                !.populated = (contentCache # EmptyCache)]
  /\ UNCHANGED <<localStorage, batch>>
  /\ UNCHANGED <<env, CACHE_TTL, now, store, calls, lastResult, fresh>>

\* one of the listing functions is awaited
PageListing ==
  \E r \in Requests : \E fault \in {"none", r[2]} :
    \E o \in {awaitCall(Caches(contentCache, sortCache), r[2], r[3],
                        fault = r[2])} :
      PageDone(r[1], r[3], <<>>, NoPin, fault,
               [cc |-> o.cc, sc |-> o.sc, threw |-> o.threw,
                warnings |->
                  IF o.invoked /\ ~o.threw /\ r[2] \in CachedFns
                  THEN validationWarnings(query(env, store, r[2], r[3]))
                  ELSE <<>>,
                invokedFns |-> IF o.invoked THEN {r[2]} ELSE {}],
               o.result, o.result)

\* getCourseLessonCount(courseSlug), with the lists getAllCourseLessons
\* returns for the slug when called just before and just after it
PageGetCourseLessonCount ==
  \E slug \in SeqCourseSlugs, fault \in {"none", "getAllCourseLessons"} :
    \E s \in {Caches(contentCache, sortCache)} :
      \E o \in {getCourseLessonCount(s, slug, fault)} :
        \E before \in {awaitCall(s, "getAllCourseLessons", slug, FALSE)} :
          \E after \in {awaitCall(o, "getAllCourseLessons", slug, FALSE)} :
            PageDone("getCourseLessonCount", slug, <<>>, NoPin, fault, o,
                     before.result,
                     [count |-> o.value, after |-> after.result])

PageCourseSlugs == {sA, sAB, sQ}

PageGetCourseBySlug ==
  \E slug \in PageCourseSlugs, fault \in {"none", "getSortedCourses"} :
    \E o \in {getCourseBySlug(Caches(contentCache, sortCache), slug, fault)} :
      PageDone("getCourseBySlug", slug, <<>>, NoPin, fault, o, <<>>, o.value)

BundleFaults ==
  {"none", "getSortedCourses", "getSortedSections", "getAllCourseLessons"}

PageGetCourseDataBundle ==
  \E slug \in PageCourseSlugs, fault \in BundleFaults :
    \E o \in {getCourseDataBundle(Caches(contentCache, sortCache), slug,
                                  fault)} :
      PageDone("getCourseDataBundle", slug, <<>>, NoPin, fault, o, <<>>,
               o.value)

PageLessonSlugs == {Join(Join(sA, s1), sX), Join(Join(sA, s1), sQ)}

PageGetLessonNavigation ==
  \E slug \in PageLessonSlugs, fault \in {"none", "getAllCourseLessons"} :
    \E o \in {lessonNavigation(Caches(contentCache, sortCache), sA, slug,
                               fault)} :
      PageDone("getLessonNavigation", sA, slug, NoPin, fault, o, <<>>,
               o.value)

PageClearContentCache ==
  /\ started < MaxPageCalls
  /\ started' = started + 1
  /\ contentCache' = clearContentCache(contentCache)
  /\ last' = [NoEvent EXCEPT !.kind = "clear",
                             !.populated = (contentCache # EmptyCache)]
  /\ UNCHANGED <<localStorage, batch>>
  /\ UNCHANGED <<env, CACHE_TTL, now, store, sortCache, calls, lastResult,
                 fresh>>

PageNext ==
  \/ PageListing
  \/ PageGetCourseLessonCount
  \/ PageGetCourseBySlug
  \/ PageGetCourseDataBundle
  \/ PageGetLessonNavigation
  \/ PageClearContentCache

PageSpec == PageInit /\ [][PageNext]_vars

PinConfigs ==
  { [enable |-> FALSE, courseSlug |-> sA],
    [enable |-> TRUE, courseSlug |-> <<>>],
    [enable |-> TRUE, courseSlug |-> sA],
    [enable |-> TRUE, courseSlug |-> sAB],
    [enable |-> TRUE, courseSlug |-> sQ] }

FeedFaults ==
  {"none", "getRawSortedPosts", "getSortedCourses", "getAllCourseLessons"}

FeedGetSortedPostsWithPinnedCourse ==
  \E cfg \in PinConfigs, fault \in FeedFaults :
    \E o \in {getSortedPostsWithPinnedCourse(
                Caches(contentCache, sortCache), cfg, fault)} :
      PageDone("getSortedPostsWithPinnedCourse", <<>>, <<>>, cfg, fault, o,
               <<>>, o.value)

ArchiveFaults ==
  {"none", "getRawSortedPosts", "getSortedCourses", "getSortedSections",
   "getSortedLessons"}

FeedGetCombinedArchiveContent ==
  \E fault \in ArchiveFaults :
    \E o \in {getCombinedArchiveContent(Caches(contentCache, sortCache),
                                        fault)} :
      PageDone("getCombinedArchiveContent", <<>>, <<>>, NoPin, fault, o,
               <<>>, o.value)

FeedPreloadHomepageData ==
  \E fault \in BundleFaults :
    \E o \in {preloadHomepageData(Caches(contentCache, sortCache), fault)} :
      PageDone("preloadHomepageData", <<>>, <<>>, NoPin, fault, o, <<>>,
               o.value)

FeedNext ==
  \/ PageListing
  \/ PageClearContentCache
  \/ FeedGetSortedPostsWithPinnedCourse
  \/ FeedGetCombinedArchiveContent
  \/ FeedPreloadHomepageData
  \/ PageGetCourseDataBundle

FeedSpec == PageInit /\ [][FeedNext]_vars

----------------------------------------------------------------------------
(* Properties of the page-level operations, checked under PageSpec *)

\* C11: whatever the cache holds and whatever the build mode,
\* getCourseLessonCount(slug) is the length of the list that
\* getAllCourseLessons(slug) returns for the same slug, called just before
\* it or just after it.
C11_LessonCountIsListLength ==
  (last.kind = "page" /\ last.op = "getCourseLessonCount" /\ ~last.threw) =>
    /\ last.out.count = Len(last.result)
    /\ last.out.count = Len(last.out.after)

C11_Witness ==
  /\ last.kind = "page" /\ last.op = "getCourseLessonCount" /\ ~last.threw
  /\ last.out.count >= 2
  /\ \E i, j \in DOMAIN last.result :
       sectionOf(last.result[i]) # sectionOf(last.result[j])

----------------------------------------------------------------------------
(* Properties of the home-page feed, checked under FeedSpec *)

FeedReturned ==
  last.kind = "page" /\ last.op = "getSortedPostsWithPinnedCourse"

Pinning == last.cfg.enable /\ last.cfg.courseSlug # <<>>

\* the posts of the store every build mode shows: those that are not drafts,
\* and the drafts outside production mode
ShownPosts ==
  {e \in Range(last.snapshot) :
     e.collection = "posts" /\ (~e.draft \/ ~env.PROD)}

\* the posts a build mode may show: in production mode a draft only under
\* the debug override (whether it then shows is the subject of C1)
ShowablePosts ==
  {e \in Range(last.snapshot) :
     e.collection = "posts" /\ (~e.draft \/ ~env.PROD \/ env.VITE_DEBUG)}

\* the valid courses of the store that the build mode shows
VisibleCourses ==
  {e \in Range(last.snapshot) :
     /\ e.collection = "courses" /\ e.type = "course"
     /\ validEntry(e) /\ shouldIncludeEntry(env, e)}

\* the valid lessons under a course slug that the build mode shows
VisibleLessons(slug) ==
  {e \in Range(last.snapshot) :
     /\ e.collection = "courses" /\ e.type = "lesson"
     /\ StartsWith(e.id, slug)
     /\ validEntry(e) /\ shouldIncludeEntry(env, e)}

PinResolves == \E c \in VisibleCourses : c.slug = last.cfg.courseSlug

\* the items are items of all visible posts, each once, newest first
AllPostsNewestFirst(items) ==
  /\ \A i \in DOMAIN items : items[i].type = "post"
  /\ ShownPosts \subseteq {items[i].entry : i \in DOMAIN items}
  /\ {items[i].entry : i \in DOMAIN items} \subseteq ShowablePosts
  /\ Len(items) = Cardinality({items[i].entry : i \in DOMAIN items})
  /\ \A i, j \in DOMAIN items :
       i < j => items[i].published >= items[j].published

\* C12: with pinning enabled, when the pinned slug does not resolve to a
\* course, or the course lookup throws, getSortedPostsWithPinnedCourse()
\* does not raise and returns all posts and no course item.
C12_PinnedCourseResilience ==
  (FeedReturned /\ Pinning /\ last.fault # "getRawSortedPosts"
     /\ (~PinResolves \/ last.warnings # <<>>
           \/ last.fault \in last.invokedFns)) =>
    /\ ~last.threw
    /\ AllPostsNewestFirst(last.out)

C12_Witness ==
  /\ FeedReturned /\ Pinning /\ PinResolves
  /\ last.fault = "getAllCourseLessons"
  /\ last.fault \in last.invokedFns
  /\ Len(last.out) >= 2

\* C13: with pinning enabled and the pinned course resolved, the first item
\* of the feed is that course with totalLessons equal to the number of its
\* visible lessons, and the rest is all posts, newest first; with pinning
\* disabled the feed has no course item.
C13_PinnedCourseFirst ==
  (FeedReturned /\ ~last.threw) =>
    /\ (Pinning /\ PinResolves /\ last.fault \notin last.invokedFns) =>
         /\ Len(last.out) >= 1
         /\ last.out[1].type = "course"
         /\ last.out[1].slug = last.cfg.courseSlug
         /\ last.out[1].entry \in VisibleCourses
         /\ last.out[1].totalLessons =
              Cardinality(VisibleLessons(last.cfg.courseSlug))
         /\ AllPostsNewestFirst(Tail(last.out))
    /\ ~Pinning => AllPostsNewestFirst(last.out)

C13_Witness ==
  /\ FeedReturned /\ ~last.threw /\ Pinning /\ PinResolves
  /\ last.fault = "none"
  /\ Len(last.out) >= 3
  /\ last.out[1].totalLessons >= 2
  /\ env.NODE_ENV = "production"

----------------------------------------------------------------------------
(* Properties of the lookup operations, checked under PageSpec *)

\* C15: called without an adapter failure, getCourseBySlug,
\* getLessonNavigation and getCourseDataBundle do not throw and return null
\* exactly when the requested course, resp. lesson, is not among the valid
\* records the build mode shows; so getCourseDataBundle returns null for an
\* absent course also when sections or lessons match the slug.
C15_NotFoundIsNull ==
  (last.kind = "page" /\ last.fault = "none") =>
    /\ last.op \in {"getCourseBySlug", "getCourseDataBundle",
                     "getLessonNavigation"} => ~last.threw
    /\ last.op = "getCourseBySlug" =>
         /\ last.out.has <=> \E c \in VisibleCourses : c.slug = last.key
         /\ last.out.has => last.out.val \in VisibleCourses
    /\ last.op = "getCourseDataBundle" =>
         /\ last.out.has <=> \E c \in VisibleCourses : c.slug = last.key
         /\ last.out.has =>
              /\ last.out.val.course.val \in VisibleCourses
              /\ last.out.val.course.val.slug = last.key
              /\ Range(last.out.val.lessons) = VisibleLessons(last.key)
              /\ last.out.val.totalLessons = Len(last.out.val.lessons)
              /\ last.out.val.totalSections = Len(last.out.val.sections)
    /\ last.op = "getLessonNavigation" =>
         (last.out.found <=>
            \E l \in VisibleLessons(last.key) : l.slug = last.arg)

C15_Witness ==
  /\ last.kind = "page" /\ last.fault = "none"
  /\ last.op = "getCourseDataBundle" /\ ~last.out.has
  /\ VisibleLessons(last.key) # {}
  /\ \E e \in Range(last.snapshot) :
       e.type = "section" /\ StartsWith(e.id, last.key) /\ validEntry(e)

----------------------------------------------------------------------------
(* Properties of the archive, checked under FeedSpec *)

ArchiveReturned ==
  /\ last.kind = "page" /\ last.op = "getCombinedArchiveContent"
  /\ ~last.threw

HasItem(type, e) ==
  \E i \in DOMAIN last.out :
    /\ last.out[i].type = type
    /\ last.out[i].slug = e.slug
    /\ last.out[i].published = e.published

\* the valid section records under a course slug
ValidSections(slug) ==
  {e \in Range(last.snapshot) :
     /\ e.collection = "courses" /\ e.type = "section"
     /\ StartsWith(e.id, slug) /\ validEntry(e)}

NewestFirst(items) ==
  \A i, j \in DOMAIN items : i < j => items[i].published >= items[j].published

\* C19 as stated: the archive has an item for every visible post, every
\* visible course and every visible lesson of a visible course, and its
\* items are in non-increasing order of published date.
C19_ArchiveHasEveryLesson ==
  ArchiveReturned =>
    /\ \A e \in ShownPosts : HasItem("post", e)
    /\ \A c \in VisibleCourses : HasItem("course", c)
    /\ \A c \in VisibleCourses :
         \A l \in VisibleLessons(c.slug) : HasItem("lesson", l)
    /\ NewestFirst(last.out)

\* C19 amended: the archive has an item for every visible post, every
\* visible course and every visible lesson under a valid section of a
\* visible course (the lessons are reached through getSortedSections and
\* getSortedLessons), it has no other lesson item, and its items are in
\* non-increasing order of published date.
C19_ArchiveHasLessonsOfSections ==
  ArchiveReturned =>
    /\ \A e \in ShownPosts : HasItem("post", e)
    /\ \A c \in VisibleCourses : HasItem("course", c)
    /\ \A c \in VisibleCourses :
         \A sec \in ValidSections(c.slug) :
           \A l \in VisibleLessons(sec.slug) : HasItem("lesson", l)
    /\ \A i \in DOMAIN last.out :
         last.out[i].type = "lesson" =>
           \E c \in VisibleCourses :
             \E sec \in ValidSections(c.slug) :
               \E l \in VisibleLessons(sec.slug) :
                 /\ l.slug = last.out[i].slug
                 /\ last.out[i].courseTitle = c.title
                 /\ last.out[i].sectionTitle = sec.title
    /\ NewestFirst(last.out)

C19_Witness ==
  /\ ArchiveReturned
  /\ \E i, j, k \in DOMAIN last.out :
       /\ last.out[i].type = "post"
       /\ last.out[j].type = "course"
       /\ last.out[k].type = "lesson"
       /\ i < j /\ j < k
  /\ \E c \in VisibleCourses :
       \E l \in VisibleLessons(c.slug) : ~HasItem("lesson", l)

----------------------------------------------------------------------------
(* Propagation of Store Adapter failures, checked under FeedSpec *)

\* a getCollection call of the last operation rejected
AdapterFailed ==
  last.kind = "page" /\ last.fault # "none" /\ last.fault \in last.invokedFns

PinnedLookupFailed ==
  /\ AdapterFailed /\ last.op = "getSortedPostsWithPinnedCourse"
  /\ last.fault \in {"getSortedCourses", "getAllCourseLessons"}

\* the failure was caught, logged as a warning, and no course was pinned
CaughtAndWarned ==
  /\ ~last.threw
  /\ Len(last.warnings) = 1
  /\ \A i \in DOMAIN last.out : last.out[i].type # "course"

----------------------------------------------------------------------------
(* Malformed records, checked under PageSpec *)

\* the records the Store Adapter handed to the last listing call
LastFetched == query(env, last.snapshot, last.op, last.key)

\* C17: a course, section or lesson record whose required fields fail
\* validation is excluded from the result of a listing operation, the
\* operation does not raise, and a warning that names the slug of the
\* record is logged for each excluded record.
C17_InvalidExcludedWithWarning ==
  (last.kind = "page" /\ last.op \in CachedFns /\ last.fault = "none"
     /\ last.op \in last.invokedFns) =>
    /\ ~last.threw
    /\ \A e \in Range(LastFetched) :
         ~validEntry(e) =>
           /\ e \notin Range(last.result)
           /\ \E i \in DOMAIN last.warnings : last.warnings[i].slug = e.slug

----------------------------------------------------------------------------
(* Listings of more than SORT_THRESHOLD records: SortSpec *)

\* the two-digit decimal text of k
TwoDigits(k) == <<48 + (k \div 10), 48 + (k % 10)>>

\* the number a two-digit text stands for
NumberOf(t) == (t[1] - 48) * 10 + (t[2] - 48)

s10 == <<49, 48>>

\* the k-th record of a large store draws its date or order from a small or
\* a large range: <<multiplier, modulus>>
KeyPatterns == {<<1, 3>>, <<7, 5>>, <<11, 60>>}

KeyOf(k, pat) == ((k * pat[1]) % pat[2]) + 1

LargeCourses(n, pat) ==
  [k \in 1..n |-> Course(TwoDigits(k), sT, KeyOf(k, pat), FALSE, sT)]

LargeSections(n, pat) ==
  [k \in 1..n |-> Section(Join(sA, TwoDigits(k)), sT, KeyOf(k, pat))]

LargeLessons(n, pat) ==
  [k \in 1..n |->
     Lesson(Join(Join(sA, IF k % 2 = 0 THEN s1 ELSE s10), TwoDigits(k)),
            sT, KeyOf(k, pat), 1, FALSE)]

SortStores ==
  UNION { { LargeCourses(n, pat), LargeSections(n, pat), LargeLessons(n, pat) } :
          n \in (SORT_THRESHOLD + 1)..(SORT_THRESHOLD + MaxLen),
          pat \in KeyPatterns }

SortInit ==
  /\ env \in Envs
  /\ CACHE_TTL = cacheTTL(env)
  /\ now = 1
  /\ store \in SortStores
  /\ contentCache = EmptyCache
  /\ sortCache = EmptySortCache
  /\ calls = EmptyBag
  /\ started = 0
  /\ last = NoEvent
  /\ lastResult = EmptyMap
  /\ fresh = [cleared |-> FALSE, begun |-> {}]
  /\ localStorage = EmptyMap
  /\ batch = NoBatch

SortNext ==
  \/ SeqGetSortedCourses
  \/ SeqGetSortedSections
  \/ SeqGetSortedLessons
  \/ SeqGetAllCourseLessons

SortSpec == SortInit /\ [][SortNext]_vars

\* the place of a record of a large store in the store, hence in the fetch
PlaceOf(e) == NumberOf(SubSeq(e.id, Len(e.id) - 1, Len(e.id)))

\* C18: for a listing of more than 50 records, the sequence sortWithCache
\* returns (by merge sort) is the stable sort of the input under the
\* listing's comparator: a permutation of the input in which no record
\* precedes one the comparator places before it, and records that compare
\* equal keep their input order.
C18_MergeSortIsStable ==
  (Returned /\ last.kind = "done" /\ last.fn \in CachedFns
     /\ Len(last.fetched) > SORT_THRESHOLD) =>
    LET input == validateCourseEntries(last.fetched)
        fn == comparatorOf(last.fn)
    IN /\ Len(last.result) = Len(input)
       /\ Range(last.result) = Range(input)
       /\ \A i, j \in DOMAIN last.result :
            i < j =>
              LET c == compare(fn, last.result[i], last.result[j])
              IN /\ c <= 0
                 /\ c = 0 => PlaceOf(last.result[i]) < PlaceOf(last.result[j])

C18_Witness ==
  /\ Returned /\ last.kind = "done" /\ last.fn = "getAllCourseLessons"
  /\ Len(last.result) > SORT_THRESHOLD
  /\ last.result # last.fetched
  /\ \E i \in DOMAIN last.result :
       /\ i < Len(last.result)
       /\ compare("lessonsBySectionAndOrder", last.result[i],
                  last.result[i + 1]) = 0

----------------------------------------------------------------------------
(* Debug-mode detection as a function of the environment: DebugSpec *)

\* the environments isDebugMode() can run in: a server-side build, where
\* import.meta.env is readable, and a context where reading it throws, with
\* or without a window whose URL may carry debug=true; VITE_DEBUG is TRUE
\* when the variable is the string "true", urlDebug when the parameter is
DebugEnvs ==
  {[NODE_ENV |-> n, PROD |-> (n = "production"), VITE_DEBUG |-> d,
    metaOK |-> m, hasWindow |-> w, urlDebug |-> (w /\ u)] :
     n \in {"production", "development", "test"}, d \in BOOLEAN,
     m \in BOOLEAN, w \in BOOLEAN, u \in BOOLEAN}

DebugInit ==
  /\ env \in DebugEnvs
  /\ CACHE_TTL = cacheTTL(env)
  /\ now = 1
  /\ store = <<>>
  /\ contentCache = EmptyCache
  /\ sortCache = EmptySortCache
  /\ calls = EmptyBag
  /\ started = 0
  /\ last = NoEvent
  /\ lastResult = EmptyMap
  /\ fresh = [cleared |-> FALSE, begun |-> {}]
  /\ localStorage = EmptyMap
  /\ batch = NoBatch

CallIsDebugMode ==
  /\ last' = [NoEvent EXCEPT !.kind = "isDebugMode", !.out = isDebugMode(env)]
  /\ UNCHANGED <<localStorage, batch>>
  /\ UNCHANGED <<env, CACHE_TTL, now, store, contentCache, sortCache, calls,
                 started, lastResult, fresh>>

CallShouldIncludeDraft ==
  \E hasDraft \in BOOLEAN, isDraft \in BOOLEAN :
    /\ last' = [NoEvent EXCEPT !.kind = "shouldIncludeDraft",
                  !.arg = <<hasDraft, isDraft>>,
                  !.out = shouldIncludeDraft(env, hasDraft, isDraft)]
    /\ UNCHANGED <<localStorage, batch>>
    /\ UNCHANGED <<env, CACHE_TTL, now, store, contentCache, sortCache,
                   calls, started, lastResult, fresh>>

DebugNext == CallIsDebugMode \/ CallShouldIncludeDraft

DebugSpec == DebugInit /\ [][DebugNext]_vars

----------------------------------------------------------------------------
(* The build mode changes while the module stays loaded: ModeSpec *)

\* process.env.NODE_ENV or VITE_DEBUG is given another value; CACHE_TTL is a
\* module-level const and keeps the value computed when the module loaded
EnvChange ==
  /\ env' \in Envs \ {env}
  /\ last' = [NoEvent EXCEPT !.kind = "env"]
  /\ UNCHANGED <<localStorage, batch>>
  /\ UNCHANGED <<CACHE_TTL, now, store, contentCache, sortCache, calls,
                 started, lastResult, fresh>>

ModeNext == PageListing \/ EnvChange

ModeSpec == PageInit /\ [][ModeNext]_vars

\* C22: the production flag and the debug flag are read at each call: a
\* call made after the build mode or the debug flag changed shows drafts as
\* the new value says, and uses the cache as the new value says (in
\* development mode it invokes the Store Adapter).
C22_ModeReadAtEachCall ==
  (last.kind = "page" /\ last.op \in CachedFns /\ ~last.threw) =>
    /\ env.NODE_ENV = "development" => last.invokedFns # {}
    /\ \A e \in Range(store) :
         (InScope(e, last.op, last.key) /\ e.draft) =>
           ((e \in Range(last.result)) <=> shouldIncludeEntry(env, e))

----------------------------------------------------------------------------
(* The fan-out and join of getCourseDataBundle: BundleSpec *)

\* the aggregation calls behind the array given to Promise.all, in array order
BundleCalls(courseSlug) ==
  << <<"getSortedCourses", <<>>>>,
     <<"getSortedSections", courseSlug>>,
     <<"getAllCourseLessons", courseSlug>> >>

RECURSIVE issueFrom(_, _, _)
\* the calls of the array are started one after another, from call i on:
\* each runs to its first await, so a cache hit is settled and a miss leaves
\* a getCollection promise pending
issueFrom(s, reqs, i) ==
  IF i > Len(reqs)
  THEN [cc |-> s.cc, sc |-> s.sc, settled |-> EmptyMap, pending |-> {}]
  ELSE IF cacheHit(s.cc, CACHE_TTL, now, reqs[i][1], reqs[i][2])
  THEN LET Settled(o, rest) ==
             [rest EXCEPT !.settled =
                Put(@, FnKey(reqs[i][1], reqs[i][2]), o.result)]
           Hit(o) == Settled(o, issueFrom(Caches(o.cc, o.sc), reqs, i + 1))
       IN Hit(hitOutcome(env, s.cc, s.sc, reqs[i][1], reqs[i][2]))
  ELSE LET Pending(rest) ==
             [rest EXCEPT !.pending =
                @ \cup {NewCall("getCourseDataBundle", reqs[i][1],
                                reqs[i][2], <<>>)}]
       IN Pending(issueFrom(s, reqs, i + 1))

\* mutation: the bundle is built from the sections only
bundleJoin_SectionsAsLessons(course, sections, lessons) ==
  IF ~course.has THEN None
  ELSE Some([course |-> course, sections |-> sections,
             lessons |-> sections, totalLessons |-> Len(sections),
             totalSections |-> Len(sections)])

\* what getCourseDataBundle returns once Promise.all has resolved
bundleJoin(course, sections, lessons) ==
  IF ~course.has THEN None
  ELSE Some([course |-> course, sections |-> sections,
             lessons |-> lessons, totalLessons |-> Len(lessons),
             totalSections |-> Len(sections)])

\* the join over the settled results of the three calls
bundleOf(settled, courseSlug) ==
  bundleJoin(find(settled[FnKey("getSortedCourses", <<>>)], courseSlug),
             settled[FnKey("getSortedSections", courseSlug)],
             settled[FnKey("getAllCourseLessons", courseSlug)])

\* a listing call made while no bundle is in progress
BundlePrepare ==
  /\ calls = EmptyBag
  /\ PageListing

\* getCourseDataBundle(courseSlug) is called: its three calls are started
BundleBegin ==
  \E courseSlug \in PageCourseSlugs :
    \E i \in {issueFrom(Caches(contentCache, sortCache),
                        BundleCalls(courseSlug), 1)} :
      \E seq \in {getCourseDataBundle(Caches(contentCache, sortCache),
                                      courseSlug, "none")} :
        /\ calls = EmptyBag
        /\ started < MaxPageCalls
        /\ started' = started + 1
        /\ contentCache' = i.cc
        /\ sortCache' = i.sc
        /\ calls' = SetToBag(i.pending)
        /\ lastResult' = i.settled
        /\ last' = [NoEvent EXCEPT
                      !.kind = IF i.pending = {} THEN "page" ELSE "pending",
                      !.op = "getCourseDataBundle", !.key = courseSlug,
                      !.snapshot = store,
                      !.populated = (contentCache # EmptyCache),
                      !.invokedFns = {c.fn : c \in i.pending},
                      !.sequential = Some(seq.value),
                      !.out = IF i.pending = {}
                              THEN bundleOf(i.settled, courseSlug)
                              ELSE <<>>]
        /\ UNCHANGED <<localStorage, batch>>
        /\ UNCHANGED <<env, CACHE_TTL, now, store, fresh>>

\* one of the pending getCollection promises resolves and its call runs to
\* its end; the last one to do so resolves Promise.all
BundleComplete ==
  \E c \in BagToSet(calls) :
    \E o \in {missOutcome(env, contentCache, sortCache, now, c.fn, c.key,
                          c.fetched)} :
      \E settled \in {Put(lastResult, FnKey(c.fn, c.key), o.result)} :
        /\ contentCache' = o.cc
        /\ sortCache' = o.sc
        /\ calls' = calls (-) SetToBag({c})
        /\ lastResult' = settled
        /\ last' = [last EXCEPT
                      !.kind = IF BagCardinality(calls) = 1
                               THEN "page" ELSE "pending",
                      !.arg = Append(@, c.fn),
                      !.out = IF BagCardinality(calls) = 1
                              THEN bundleOf(settled, last.key)
                              ELSE <<>>]
        /\ UNCHANGED <<localStorage, batch>>
        /\ UNCHANGED <<env, CACHE_TTL, now, store, started, fresh>>

BundleNext == BundlePrepare \/ BundleBegin \/ BundleComplete \/ Tick

BundleSpec == PageInit /\ [][BundleNext]_vars

\* C23: getCourseDataBundle(courseSlug) has all the fetches it needs in
\* flight together before any of them is joined, and what it returns is the
\* same for every order in which they complete: it is what it returns when
\* they complete in array order.
C23_BundleOrderIndependent ==
  /\ (last.kind = "pending" /\ last.arg = <<>>) =>
       {c.fn : c \in BagToSet(calls)} = last.invokedFns
  /\ (last.kind = "page" /\ last.op = "getCourseDataBundle") =>
       /\ calls = EmptyBag
       /\ Some(last.out) = last.sequential

C23_Witness ==
  /\ last.kind = "page" /\ last.op = "getCourseDataBundle"
  /\ last.arg = <<"getAllCourseLessons", "getSortedSections",
                  "getSortedCourses">>
  /\ last.out.has
  /\ last.out.val.totalLessons >= 2

----------------------------------------------------------------------------
(* Preloading and the calls that follow it: PreloadSpec *)

\* the slug lists handed to preloadCourseData
PreloadSlugLists == {<<>>, <<sA>>, <<sAB>>, <<sAB, sA>>, <<sQ, sA>>}

\* the calls preloadCourseData(courseSlugs) makes
preloadedKeys(courseSlugs) ==
  {FnKey(fn, courseSlugs[i]) :
     fn \in {"getAllCourseLessons", "getSortedSections"},
     i \in DOMAIN courseSlugs}

\* preloadCourseData(courseSlugs); fresh.begun remembers the calls of the
\* preloads that completed since the last clearContentCache()
PreloadCourseData ==
  \E courseSlugs \in PreloadSlugLists :
    \E fault \in {"none", "getSortedSections", "getAllCourseLessons"} :
      \E o \in {preloadCourseData(Caches(contentCache, sortCache),
                                  courseSlugs, 1, fault)} :
        /\ started < MaxPageCalls
        /\ started' = started + 1
        /\ contentCache' = o.cc
        /\ sortCache' = o.sc
        /\ fresh' = IF o.threw THEN fresh
                    ELSE [fresh EXCEPT
                            !.begun = @ \cup preloadedKeys(courseSlugs)]
        /\ last' = [NoEvent EXCEPT !.kind = "page",
                      !.op = "preloadCourseData", !.arg = courseSlugs,
                      !.fault = fault, !.snapshot = store,
                      !.threw = o.threw, !.invokedFns = o.invokedFns,
                      !.populated = (contentCache # EmptyCache)]
        /\ UNCHANGED <<localStorage, batch>>
        /\ UNCHANGED <<env, CACHE_TTL, now, store, calls, lastResult>>

\* getAllCourseLessons(slug) or getSortedSections(slug) is awaited
PreloadedListing ==
  \E fn \in {"getAllCourseLessons", "getSortedSections"} :
    \E slug \in PageCourseSlugs :
      \E o \in {awaitCall(Caches(contentCache, sortCache), fn, slug, FALSE)} :
        PageDone(fn, slug, <<>>, NoPin, "none",
                 [cc |-> o.cc, sc |-> o.sc, threw |-> o.threw,
                  warnings |-> <<>>,
                  invokedFns |-> IF o.invoked THEN {fn} ELSE {}],
                 o.result, o.result)

\* clearContentCache(): what was preloaded before it no longer counts
PreloadClearContentCache ==
  /\ started < MaxPageCalls
  /\ started' = started + 1
  /\ contentCache' = clearContentCache(contentCache)
  /\ fresh' = [cleared |-> TRUE, begun |-> {}]
  /\ last' = [NoEvent EXCEPT !.kind = "clear",
                             !.populated = (contentCache # EmptyCache)]
  /\ UNCHANGED <<localStorage, batch>>
  /\ UNCHANGED <<env, CACHE_TTL, now, store, sortCache, calls, lastResult>>

PreloadNext ==
  \/ PreloadCourseData
  \/ PreloadedListing
  \/ PreloadClearContentCache
  \/ Tick

PreloadSpec == PageInit /\ [][PreloadNext]_vars

----------------------------------------------------------------------------
(* Course progress in localStorage: progress-utils.ts, ProgressSpec *)

\* "course_progress_"
PROGRESS_KEY_PREFIX ==
  <<99, 111, 117, 114, 115, 101, 95, 112, 114, 111, 103, 114, 101, 115, 115,
    95>>

\* new Date().toISOString() at time t
toISOString(t) == [iso |-> t]

\* JSON.stringify of a CourseProgress: the text as its name/value pairs; a
\* property that is undefined is left out
JSONstringify(progress) ==
  << <<"completedLessons", progress.completedLessons>> >>
    \o (IF progress.lastViewedLesson.has
        THEN << <<"lastViewedLesson", progress.lastViewedLesson.val>> >>
        ELSE <<>>)
    \o << <<"startedAt", progress.startedAt>>,
          <<"lastUpdated", progress.lastUpdated>> >>

\* the value of the property name in a JSON text, if it has the property
property(text, name) ==
  IF \E i \in DOMAIN text : text[i][1] = name
  THEN Some(text[CHOOSE i \in DOMAIN text : text[i][1] = name][2])
  ELSE None

\* JSON.parse of a text written by JSONstringify
JSONparse(text) ==
  [completedLessons |-> property(text, "completedLessons").val,
   lastViewedLesson |-> property(text, "lastViewedLesson"),
   startedAt |-> property(text, "startedAt").val,
   lastUpdated |-> property(text, "lastUpdated").val]

\* Array.prototype.includes
includes(arr, v) == \E i \in DOMAIN arr : arr[i] = v

\* getCourseProgress(courseSlug) over the storage ls at time t
getCourseProgress(ls, courseSlug, t) ==
  IF (PROGRESS_KEY_PREFIX \o courseSlug) \notin DOMAIN ls
  THEN [completedLessons |-> <<>>, lastViewedLesson |-> None,
        startedAt |-> toISOString(t), lastUpdated |-> toISOString(t)]
  ELSE JSONparse(ls[PROGRESS_KEY_PREFIX \o courseSlug])

\* mutation: the lesson is pushed whether or not it is in the list
markLessonCompleted_AlwaysPush(ls, courseSlug, lessonSlug, t) ==
  Put(ls, PROGRESS_KEY_PREFIX \o courseSlug,
      JSONstringify(
        [getCourseProgress(ls, courseSlug, t) EXCEPT
           !.completedLessons = Append(@, lessonSlug),
           !.lastViewedLesson = Some(lessonSlug),
           !.lastUpdated = toISOString(t)]))

\* markLessonCompleted(courseSlug, lessonSlug): the storage afterwards
markLessonCompleted(ls, courseSlug, lessonSlug, t) ==
  Put(ls, PROGRESS_KEY_PREFIX \o courseSlug,
      JSONstringify(
        [getCourseProgress(ls, courseSlug, t) EXCEPT
           !.completedLessons =
             IF includes(@, lessonSlug) THEN @ ELSE Append(@, lessonSlug),
           !.lastViewedLesson = Some(lessonSlug),
           !.lastUpdated = toISOString(t)]))

isLessonCompleted(ls, courseSlug, lessonSlug, t) ==
  includes(getCourseProgress(ls, courseSlug, t).completedLessons, lessonSlug)

\* resetCourseProgress(courseSlug): localStorage.removeItem(key)
resetCourseProgress(ls, courseSlug) ==
  [k \in (DOMAIN ls) \ {PROGRESS_KEY_PREFIX \o courseSlug} |-> ls[k]]

isCourseCompleted(ls, courseSlug, totalLessons, t) ==
  /\ Len(getCourseProgress(ls, courseSlug, t).completedLessons)
       >= totalLessons
  /\ totalLessons > 0

\* the courses of the site and the slugs of their lessons
ProgressCourses == {sA, sAB}

ProgressLessonSlugs ==
  {Join(Join(sA, s1), sX), Join(Join(sA, s1), sY), Join(Join(sAB, s1), sX)}

\* the lessons of a course: those whose first path segment is its slug
lessonsOf(courseSlug) ==
  {l \in ProgressLessonSlugs : Split(l)[1] = courseSlug}

Marked(courseSlug, lessonSlug) ==
  [course |-> courseSlug, lesson |-> lessonSlug]

ProgressInit ==
  /\ env \in {ev \in Envs : ev.NODE_ENV = "production" /\ ~ev.VITE_DEBUG}
  /\ CACHE_TTL = cacheTTL(env)
  /\ now = 1
  /\ store = <<>>
  /\ contentCache = EmptyCache
  /\ sortCache = EmptySortCache
  /\ calls = EmptyBag
  /\ started = 0
  /\ last = NoEvent
  /\ lastResult = EmptyMap
  /\ fresh = [cleared |-> FALSE, begun |-> {}]
  /\ localStorage = EmptyMap
  /\ batch = NoBatch

\* fresh.begun remembers the lessons marked for a course since its last reset
MarkLessonCompleted ==
  \E courseSlug \in ProgressCourses, lessonSlug \in ProgressLessonSlugs :
    /\ started < MaxProgressCalls
    /\ started' = started + 1
    /\ localStorage' =
         markLessonCompleted(localStorage, courseSlug, lessonSlug, now)
    /\ fresh' = [fresh EXCEPT
                   !.begun = @ \cup {Marked(courseSlug, lessonSlug)}]
    /\ last' = [NoEvent EXCEPT !.kind = "markLessonCompleted",
                  !.key = courseSlug, !.arg = lessonSlug]
    /\ UNCHANGED <<env, CACHE_TTL, now, store, contentCache, sortCache,
                   calls, lastResult, batch>>

ResetCourseProgress ==
  \E courseSlug \in ProgressCourses :
    /\ started < MaxProgressCalls
    /\ started' = started + 1
    /\ localStorage' = resetCourseProgress(localStorage, courseSlug)
    /\ fresh' = [fresh EXCEPT
                   !.begun = {m \in @ : m.course # courseSlug}]
    /\ last' = [NoEvent EXCEPT !.kind = "resetCourseProgress",
                  !.key = courseSlug]
    /\ UNCHANGED <<env, CACHE_TTL, now, store, contentCache, sortCache,
                   calls, lastResult, batch>>

IsLessonCompleted ==
  \E courseSlug \in ProgressCourses, lessonSlug \in ProgressLessonSlugs :
    /\ last' = [NoEvent EXCEPT !.kind = "isLessonCompleted",
                  !.key = courseSlug, !.arg = lessonSlug,
                  !.out = isLessonCompleted(localStorage, courseSlug,
                                            lessonSlug, now)]
    /\ UNCHANGED <<env, CACHE_TTL, now, store, contentCache, sortCache,
                   calls, started, lastResult, fresh, localStorage, batch>>

\* isCourseCompleted(courseSlug, totalLessons) with the number of lessons
\* of the course as totalLessons
IsCourseCompleted ==
  \E courseSlug \in ProgressCourses :
    /\ last' = [NoEvent EXCEPT !.kind = "isCourseCompleted",
                  !.key = courseSlug,
                  !.arg = Cardinality(lessonsOf(courseSlug)),
                  !.out = isCourseCompleted(localStorage, courseSlug,
                            Cardinality(lessonsOf(courseSlug)), now)]
    /\ UNCHANGED <<env, CACHE_TTL, now, store, contentCache, sortCache,
                   calls, started, lastResult, fresh, localStorage, batch>>

ProgressNext ==
  \/ MarkLessonCompleted
  \/ ResetCourseProgress
  \/ IsLessonCompleted
  \/ IsCourseCompleted
  \/ Tick

ProgressSpec == ProgressInit /\ [][ProgressNext]_vars

\* C25: isCourseCompleted(courseSlug, totalLessons) returns true only when
\* every lesson of the course has been marked completed (since the course's
\* last reset), after any sequence of markLessonCompleted and
\* resetCourseProgress calls.
C25_CompletedOnlyWhenAllMarked ==
  (last.kind = "isCourseCompleted" /\ last.out = TRUE) =>
    \A l \in lessonsOf(last.key) : Marked(last.key, l) \in fresh.begun


\* C30: after any sequence of markLessonCompleted and resetCourseProgress
\* calls, no course's stored completedLessons list holds a slug twice, and
\* isLessonCompleted(course, lesson) is true exactly when the lesson was
\* marked completed for that course since the course's last reset.
C30_NoDuplicatesAndExactMembership ==
  /\ \A courseSlug \in ProgressCourses :
       \A i, j \in
            DOMAIN getCourseProgress(localStorage, courseSlug, now)
                     .completedLessons :
         getCourseProgress(localStorage, courseSlug, now).completedLessons[i]
             = getCourseProgress(localStorage, courseSlug, now)
                 .completedLessons[j]
           => i = j
  /\ last.kind = "isLessonCompleted" =>
       (last.out <=> Marked(last.key, last.arg) \in fresh.begun)

\* after MaxProgressCalls mark and reset calls a lesson is found completed
\* for course a, whose list holds one slug, while the other course holds
\* nothing
C30_Witness ==
  /\ started = MaxProgressCalls
  /\ last.kind = "isLessonCompleted"
  /\ last.key = sA
  /\ last.out = TRUE
  /\ Len(getCourseProgress(localStorage, sA, now).completedLessons) = 1
  /\ (PROGRESS_KEY_PREFIX \o sAB) \notin DOMAIN localStorage
  /\ (PROGRESS_KEY_PREFIX \o sA) \in DOMAIN localStorage

----------------------------------------------------------------------------
(* batchPreloadCourseData step by step: BatchSpec *)

\* the slug lists and batch sizes handed to batchPreloadCourseData
BatchSlugLists ==
  {<<>>, <<sA>>, <<sA, sAB>>, <<sA, sAB, sA>>, <<sAB, sQ, sA>>}

BatchSizes == 1..MaxBatchSize

\* mutation: the batch is everything from index i on
batchAt_WholeRest(courseSlugs, i, batchSize) ==
  Slice(courseSlugs, i, Len(courseSlugs))

\* const batch = courseSlugs.slice(i, i + batchSize)
batchAt(courseSlugs, i, batchSize) == Slice(courseSlugs, i, i + batchSize)

\* the aggregation calls preloadCourseData(batch) makes, in the order it
\* makes them; slot is the index in courseSlugs of the course of the call
PreloadCalls(courseSlugs, i, batchSize) ==
  [k \in 1..(2 * Len(batchAt(courseSlugs, i, batchSize))) |->
     [fn |-> IF k % 2 = 1 THEN "getAllCourseLessons"
             ELSE "getSortedSections",
      key |-> batchAt(courseSlugs, i, batchSize)[(k + 1) \div 2],
      slot |-> i + ((k + 1) \div 2) - 1]]

RECURSIVE startFrom(_, _, _)
\* the calls of a batch are made one after another, from call k on, each
\* running to its first await: a cache hit is settled at once and leaves the
\* caches as they are, a miss leaves a getCollection promise pending
startFrom(cc, reqs, k) ==
  IF k > Len(reqs) THEN EmptyBag
  ELSE IF cacheHit(cc, CACHE_TTL, now, reqs[k].fn, reqs[k].key)
  THEN startFrom(cc, reqs, k + 1)
  ELSE SetToBag({NewCall("batchPreloadCourseData", reqs[k].fn, reqs[k].key,
                         reqs[k].slot)})
         (+) startFrom(cc, reqs, k + 1)

\* the head of the for loop with the loop variable at b.i: the function
\* returns when i has passed the list, and starts the batch at i otherwise
loopHead(b) ==
  IF b.i < Len(b.courseSlugs)
  THEN [batch |-> [b EXCEPT !.status = "running"],
        pending |-> startFrom(contentCache,
                              PreloadCalls(b.courseSlugs, b.i, b.batchSize),
                              1)]
  ELSE [batch |-> [b EXCEPT !.status = "resolved"], pending |-> EmptyBag]

\* batchPreloadCourseData(courseSlugs, batchSize) is called and runs to its
\* first await
BatchCall ==
  \E courseSlugs \in BatchSlugLists, batchSize \in BatchSizes :
    \E h \in {loopHead([NoBatch EXCEPT !.courseSlugs = courseSlugs,
                                       !.batchSize = batchSize])} :
      /\ batch.status = "idle"
      /\ batch' = h.batch
      /\ calls' = h.pending
      /\ last' = [NoEvent EXCEPT !.kind = "batch",
                    !.op = "batchPreloadCourseData", !.arg = courseSlugs,
                    !.invoked = (h.pending # EmptyBag)]
      /\ UNCHANGED <<env, CACHE_TTL, now, store, contentCache, sortCache,
                     started, lastResult, fresh, localStorage>>

\* await preloadCourseData(batch) resumes once every call of the batch has
\* been fulfilled: i += batchSize, then the loop head again
BatchResume ==
  \E h \in {loopHead([batch EXCEPT !.i = @ + batch.batchSize])} :
    /\ batch.status = "running"
    /\ calls = EmptyBag
    /\ batch' = h.batch
    /\ calls' = h.pending
    /\ last' = [NoEvent EXCEPT !.kind = "batch",
                  !.op = "batchPreloadCourseData",
                  !.arg = batch.courseSlugs,
                  !.invoked = (h.pending # EmptyBag)]
    /\ UNCHANGED <<env, CACHE_TTL, now, store, contentCache, sortCache,
                   started, lastResult, fresh, localStorage>>

\* the getCollection promise of a pending call rejects: the call rejects,
\* Promise.all rejects and with it batchPreloadCourseData, while the other
\* calls of the batch stay pending
BatchReject ==
  \E c \in BagToSet(calls) :
    /\ calls' = calls (-) SetToBag({c})
    /\ batch' = [batch EXCEPT !.status = "rejected", !.failed = TRUE]
    /\ last' = [NoEvent EXCEPT !.kind = "settled",
                  !.op = "batchPreloadCourseData", !.fn = c.fn,
                  !.key = c.key, !.arg = c.arg, !.invoked = TRUE,
                  !.threw = TRUE]
    /\ UNCHANGED <<env, CACHE_TTL, now, store, contentCache, sortCache,
                   started, lastResult, fresh, localStorage>>

\* the getCollection promise of a pending call is fulfilled: the call
\* validates, sorts and caches what was fetched
BatchFulfil ==
  \E c \in BagToSet(calls) :
    \E o \in {missOutcome(env, contentCache, sortCache, now, c.fn, c.key,
                          c.fetched)} :
      /\ calls' = calls (-) SetToBag({c})
      /\ contentCache' = o.cc
      /\ sortCache' = o.sc
      /\ last' = [NoEvent EXCEPT !.kind = "settled",
                    !.op = "batchPreloadCourseData", !.fn = c.fn,
                    !.key = c.key, !.arg = c.arg, !.invoked = TRUE]
      /\ UNCHANGED <<env, CACHE_TTL, now, store, started, lastResult, fresh,
                     localStorage, batch>>

BatchSettle == BatchReject \/ BatchFulfil

BatchInit ==
  /\ env \in Envs
  /\ CACHE_TTL = cacheTTL(env)
  /\ now = 1
  /\ store \in {StoreV2, StoreV3}
  /\ contentCache = EmptyCache
  /\ sortCache = EmptySortCache
  /\ calls = EmptyBag
  /\ started = 0
  /\ last = NoEvent
  /\ lastResult = EmptyMap
  /\ fresh = [cleared |-> FALSE, begun |-> {}]
  /\ localStorage = EmptyMap
  /\ batch = NoBatch

BatchNext == BatchCall \/ BatchResume \/ BatchSettle

\* every getCollection promise settles, and a continuation that can run is
\* run by the event loop
BatchSpec ==
  /\ BatchInit
  /\ [][BatchNext]_vars
  /\ WF_vars(BatchResume)
  /\ WF_vars(BatchSettle)

\* the courses with a call still pending
InFlight == {c.arg : c \in BagToSet(calls)}

\* both listings of every slug of the list are in the content cache
EverySlugPreloaded ==
  \A k \in DOMAIN batch.courseSlugs :
    /\ populatedIn(contentCache, "getAllCourseLessons", batch.courseSlugs[k])
    /\ populatedIn(contentCache, "getSortedSections", batch.courseSlugs[k])

----------------------------------------------------------------------------
(* Previous/next links between posts: getSortedPosts, LinkSpec *)

\* a post with the link fields of its frontmatter after the schema's
\* defaults: prevTitle, prevSlug, nextTitle, nextSlug: z.string().default("")
LinkedPost(id, published, draft, prevSlug, nextSlug) ==
  Post(id, published, draft)
    @@ [prevTitle |-> <<>>, prevSlug |-> prevSlug,
        nextTitle |-> <<>>, nextSlug |-> nextSlug]

LinkedPostCatalogue ==
  { LinkedPost(sX, 1, FALSE, <<>>, <<>>),
    LinkedPost(sY, 2, TRUE, <<>>, <<>>),
    LinkedPost(sZ, 2, FALSE, <<>>, <<>>),
    LinkedPost(sQ, 3, FALSE, sZ, sZ) }

LinkStores == Arrangements(LinkedPostCatalogue)

\* the two loops of getSortedPosts: sorted[i].data.nextSlug/nextTitle from
\* sorted[i - 1] for i >= 1, sorted[i].data.prevSlug/prevTitle from
\* sorted[i + 1] for i < length - 1 (0-based); nothing else is assigned
linkPosts(sorted) ==
  [i \in DOMAIN sorted |->
     [sorted[i] EXCEPT
        !.nextSlug = IF i > 1 THEN sorted[i - 1].slug ELSE @,
        !.nextTitle = IF i > 1 THEN sorted[i - 1].title ELSE @,
        !.prevSlug = IF i < Len(sorted) THEN sorted[i + 1].slug ELSE @,
        !.prevTitle = IF i < Len(sorted) THEN sorted[i + 1].title ELSE @]]

\* getSortedPosts(): await getRawSortedPosts(), then the links
getSortedPosts(ev, st) ==
  linkPosts(postsOutcome(EmptyCache, EmptySortCache,
                         query(ev, st, "getRawSortedPosts", <<>>)).result)

LinkInit ==
  /\ env \in Envs
  /\ CACHE_TTL = cacheTTL(env)
  /\ now = 1
  /\ store \in LinkStores
  /\ contentCache = EmptyCache
  /\ sortCache = EmptySortCache
  /\ calls = EmptyBag
  /\ started = 0
  /\ last = NoEvent
  /\ lastResult = EmptyMap
  /\ fresh = [cleared |-> FALSE, begun |-> {}]
  /\ localStorage = EmptyMap
  /\ batch = NoBatch

LinkGetSortedPosts ==
  /\ started < MaxSeqCalls
  /\ started' = started + 1
  /\ last' = [NoEvent EXCEPT !.kind = "done", !.op = "getSortedPosts",
                !.fn = "getRawSortedPosts", !.invoked = TRUE,
                !.snapshot = store,
                !.result = getSortedPosts(env, store)]
  /\ UNCHANGED <<env, CACHE_TTL, now, store, contentCache, sortCache, calls,
                 lastResult, fresh, localStorage, batch>>

LinkNext == LinkGetSortedPosts \/ Tick

LinkSpec == LinkInit /\ [][LinkNext]_vars

\* C27: in the list returned by getSortedPosts(), for every index i > 0 the
\* post's nextSlug is the slug of the post at i-1, for every i < n-1 its
\* prevSlug is the slug of the post at i+1, and the newest post has no
\* nextSlug and the oldest no prevSlug (the schema's default, the empty
\* string).
C27_PostsLinkedToNeighbours ==
  (last.kind = "done" /\ last.op = "getSortedPosts") =>
    /\ \A i \in 2..Len(last.result) :
         last.result[i].nextSlug = last.result[i - 1].slug
    /\ \A i \in 1..(Len(last.result) - 1) :
         last.result[i].prevSlug = last.result[i + 1].slug
    /\ last.result # <<>> =>
         /\ last.result[1].nextSlug = <<>>
         /\ last.result[Len(last.result)].prevSlug = <<>>

----------------------------------------------------------------------------
(* Lessons of the archive and their courses, checked under FeedSpec *)

\* C28: in getCombinedArchiveContent(), no lesson appears more than once and
\* each lesson item's courseTitle is the title of the course whose slug is
\* the first path segment of the lesson's id, also when one course's slug (or
\* one section's slug) is a string prefix of another's.
C28_ArchiveLessonsOnceUnderOwnCourse ==
  ArchiveReturned =>
    /\ \A i, j \in DOMAIN last.out :
         (/\ last.out[i].type = "lesson" /\ last.out[j].type = "lesson"
          /\ last.out[i].slug = last.out[j].slug) => i = j
    /\ \A i \in DOMAIN last.out :
         last.out[i].type = "lesson" =>
           \E c \in Range(last.snapshot) :
             /\ c.collection = "courses" /\ c.type = "course"
             /\ c.slug = Split(last.out[i].slug)[1]
             /\ last.out[i].courseTitle = c.title

----------------------------------------------------------------------------
(* A Store Adapter failure and the calls after it: FailSpec *)

\* the calls page code makes to the four cached aggregation functions
FailRequests == {r \in Requests : r[2] \in CachedFns}

\* mutation: a call that failed caches an empty list under its key
rejectOutcome_CachesEmpty(cc, sc, t, fn, key) ==
  IF fn = "getSortedCourses"
  THEN [cc |-> [cc EXCEPT !.courses = Some(<<>>), !.lastUpdated = t],
        sc |-> sc]
  ELSE [cc |-> [cc EXCEPT ![spaceOf(fn)] = Put(@, key, <<>>)], sc |-> sc]

\* await getCollection(...) throws: the statements after it, the cache
\* write among them, are not executed
rejectOutcome(cc, sc, t, fn, key) == [cc |-> cc, sc |-> sc]

\* what lastResult remembers of a call that rejected; alone: when it
\* rejected, the entry of its key was not in the cache and no other call
\* for the key was pending
Rejected(alone) == <<[threw |-> TRUE, alone |-> alone]>>

isRejected(v) == Len(v) = 1 /\ "threw" \in DOMAIN v[1]

\* fresh.begun holds the calls begun since the start, less those whose key
\* has had a failure since
FailInit ==
  /\ env \in Envs
  /\ CACHE_TTL = cacheTTL(env)
  /\ now = 1
  /\ store = StoreV1
  /\ contentCache = EmptyCache
  /\ sortCache = EmptySortCache
  /\ calls = EmptyBag
  /\ started = 0
  /\ last = NoEvent
  /\ lastResult = EmptyMap
  /\ fresh = [cleared |-> TRUE, begun |-> {}]
  /\ localStorage = EmptyMap
  /\ batch = NoBatch

\* an aggregation function is called: cache test, then hit or getCollection
FailBegin ==
  \E r \in FailRequests :
    /\ started < MaxFailCalls
    /\ started' = started + 1
    /\ IF cacheHit(contentCache, CACHE_TTL, now, r[2], r[3])
       THEN /\ HitStep(r[1], r[2], r[3], r[4])
            /\ UNCHANGED calls
       ELSE /\ BagCardinality(calls) < MaxCalls
            /\ calls' = calls (+) SetToBag({NewCall(r[1], r[2], r[3], r[4])})
            /\ fresh' = noteBegun(r[2], r[3])
            /\ last' = [NoEvent EXCEPT !.kind = "miss", !.op = r[1],
                          !.fn = r[2], !.key = r[3], !.arg = r[4],
                          !.invoked = TRUE, !.prev = prevOf(r[2], r[3]),
                          !.populated =
                            populatedIn(contentCache, r[2], r[3])]
            /\ UNCHANGED <<contentCache, sortCache, lastResult>>
    /\ UNCHANGED <<env, CACHE_TTL, now, store, localStorage, batch>>

\* the getCollection promise of a pending call is fulfilled
FailComplete == CompleteAny

\* the getCollection promise of a pending call rejects
FailReject ==
  \E c \in BagToSet(calls) :
    \E o \in {rejectOutcome(contentCache, sortCache, now, c.fn, c.key)} :
      /\ calls' = calls (-) SetToBag({c})
      /\ contentCache' = o.cc
      /\ sortCache' = o.sc
      /\ lastResult' =
           Put(lastResult, FnKey(c.fn, c.key),
               Rejected(/\ ~cacheHit(contentCache, CACHE_TTL, now, c.fn,
                                     c.key)
                        /\ \A d \in BagToSet(calls (-) SetToBag({c})) :
                             ~(d.fn = c.fn /\ d.key = c.key)))
      /\ fresh' = [fresh EXCEPT !.begun = @ \ {FnKey(c.fn, c.key)}]
      /\ last' = [NoEvent EXCEPT !.kind = "rejected", !.op = c.op,
                    !.fn = c.fn, !.key = c.key, !.arg = c.arg,
                    !.invoked = TRUE, !.threw = TRUE,
                    !.populated = populatedIn(contentCache, c.fn, c.key)]
      /\ UNCHANGED <<env, CACHE_TTL, now, store, started, localStorage,
                     batch>>

FailNext == FailBegin \/ FailComplete \/ FailReject

FailSpec == FailInit /\ [][FailNext]_vars

\* the latest failure of (fn, key) has had no call for the key begun after it
NextAfterFailure(fn, key) ==
  /\ FnKey(fn, key) \in DOMAIN lastResult
  /\ isRejected(lastResult[FnKey(fn, key)])
  /\ FnKey(fn, key) \notin fresh.begun

\* C29 as stated: if the Store Adapter throws during getSortedSections,
\* getSortedLessons, getAllCourseLessons or getSortedCourses, no key-space of
\* the content cache is modified, and the next call for the same key invokes
\* the Store Adapter again.
C29_FailureThenAdapterAgain ==
  [][/\ (calls' # calls /\ last'.kind = "rejected") =>
          contentCache' = contentCache
     /\ (started' = started + 1
           /\ NextAfterFailure(last'.fn, last'.key)) =>
          last'.invoked]_vars

\* C29, amended: if the Store Adapter throws during one of the four
\* functions, no key-space of the content cache is modified, and the next
\* call for the same key invokes the Store Adapter again unless a call for
\* that key that overlapped the failing one has cached the entry.
C29_FailureLeavesCacheAsItWas ==
  [][/\ (calls' # calls /\ last'.kind = "rejected") =>
          contentCache' = contentCache
     /\ (started' = started + 1
           /\ NextAfterFailure(last'.fn, last'.key)
           /\ lastResult[FnKey(last'.fn, last'.key)][1].alone) =>
          last'.invoked]_vars

\* in production mode, with another key cached, a call has been made for a
\* key whose only call so far had failed, and it invoked the Store Adapter
C29_Witness ==
  /\ env.NODE_ENV = "production"
  /\ contentCache # EmptyCache
  /\ last.kind = "miss"
  /\ FnKey(last.fn, last.key) \in DOMAIN lastResult
  /\ isRejected(lastResult[FnKey(last.fn, last.key)])
  /\ lastResult[FnKey(last.fn, last.key)][1].alone
  /\ ~populatedIn(contentCache, last.fn, last.key)

====
